---- MODULE Spec2Model ----
(***************************************************************************)
(* tee-sniper API: the sliding-window session store                        *)
(* (api/app/services/session_manager.py) over a Redis keyspace.            *)
(*                                                                         *)
(* Time is discrete: one Tick is one second of the Redis clock.  A key     *)
(* written with a TTL of n seconds is readable for the n instants that     *)
(* follow the write and is gone at the n-th Tick.  Every Redis command is  *)
(* atomic (the server runs one command at a time); a SessionManager        *)
(* method that awaits two commands is two steps, and other tasks and the   *)
(* clock may run between them.                                             *)
(*                                                                         *)
(* The module also holds the booking-site client                           *)
(* (api/app/services/booking_client.py with the parsers of                 *)
(* api/app/utils/html_parser.py) and the credential codec                  *)
(* (api/app/services/encryption.py).  Each has its own specification:      *)
(* Spec for the session store, ClientSpec for one client instance,         *)
(* PairSpec for two instances side by side, CodecSpec for sequences of     *)
(* encrypt and decrypt calls, PureSpec for one call of a parser or of      *)
(* decrypt_credentials on an argument chosen at the start; a               *)
(* specification leaves the variables of the other parts untouched.  A     *)
(* client call that goes to the network is two steps, the call up to the   *)
(* request and the resumption when the site answers, fails or the task is  *)
(* cancelled.  The request dependencies of api/app/dependencies.py run in  *)
(* the step that ends a get_session call.                                  *)
(***************************************************************************)
EXTENDS Integers, Sequences, FiniteSets, TLC

\* ---------------------------------------------------------------- bounds
MaxTokens == 2      \* distinct values uuid4 is observed to return
NumTasks == 2       \* concurrent caller tasks sharing one SessionManager
SessionTTL == 2     \* the configured window self.ttl, in seconds

Tokens == 1..MaxTokens
Tasks == 1..NumTasks

\* ---------------------------------------------------------------- inputs
CookieOrder == <<"PHPSESSID", "auth">>

\* store_session(cookies, base_url): the argument pairs callers pass
StoreInputs ==
    { [cookies |-> [n \in {"PHPSESSID"} |-> "abc123"],
       base_url |-> "https://example.com/"],
      [cookies |-> [n \in {"PHPSESSID", "auth"} |->
                        IF n = "auth" THEN "token-value" ELSE "integration-test-123"],
       base_url |-> "https://integration-test.example.com/"] }

\* datetime.now(timezone.utc).isoformat() as read by store_session
Timestamps == {"2024-01-15T10:30:00+00:00"}

\* ------------------------------------------------------------- constants
KEY_PREFIX == "session:"
NoExpiry == -1
NoKey == -2

VARIABLES
    redis,      \* the keyspace: present key -> [val, ttl]
    issued,     \* the tokens uuid4 has returned so far
    pc,         \* per task: "idle", or "expire" inside get_session after GET
    tok,        \* per task: the token argument of the call in progress
    data,       \* per task: the string GET returned to the call in progress
    ev,         \* the step just taken and what it returned to its caller
    phase,      \* history, per token: "absent", "active", "deleted", "expired"
    idle,       \* history, per token: seconds since store or the last refresh
    stored,     \* history, per token: what store_session was given for it
    auth        \* what the request dependencies made of the step just taken

\* BookingClient instances (api/app/services/booking_client.py)
VARIABLES
    cfg,        \* per client: what __init__ fixed (base_url, _user_agent, _initial_cookies)
    http,       \* per client: self._client, None or the open httpx.AsyncClient
    scope,      \* per client: "out", or "in" the body of `async with client`
    pcC,        \* per client: "idle", or the request the client is awaiting
    opens,      \* history, per client: HTTP contexts acquired so far (saturating)
    cev         \* the client step just taken: request sent, value returned, error raised

\* EncryptionService (api/app/services/encryption.py)
VARIABLES
    nonces,     \* the nonces os.urandom has returned so far
    sealed,     \* the encrypt_credentials calls made so far, in order
    cx          \* the codec call just made and its outcome

VARIABLES
    fx          \* a call of a pure function: its name, argument and result

sessionVars == <<redis, issued, pc, tok, data, ev, phase, idle, stored, auth>>
clientVars == <<cfg, http, scope, pcC, opens, cev>>
codecVars == <<nonces, sealed, cx>>
pureVars == <<fx>>
vars == <<sessionVars, clientVars, codecVars, pureVars>>

\* --------------------------------------------------------------- helpers
None == <<>>
Some(v) == <<v>>

\* _key dropping its argument: every session under the one key "session:"
Key_Shared(token) == <<KEY_PREFIX, 0>>

\* SessionManager._key
Key(token) == <<KEY_PREFIX, token>>

\* json.dumps that writes only the first cookie of the jar
JsonDumps_FirstCookieOnly(session) ==
    LET names == SelectSeq(CookieOrder, LAMBDA n : n \in DOMAIN session.cookies)
        members == [i \in 1..(IF Len(names) > 1 THEN 1 ELSE Len(names)) |->
                        <<names[i], session.cookies[names[i]]>>]
    IN  << <<"cookies", members>>,
           <<"base_url", session.base_url>>,
           <<"created_at", session.created_at>> >>

\* json.dumps of the session_data dict: members in insertion order
JsonDumps(session) ==
    LET names == SelectSeq(CookieOrder, LAMBDA n : n \in DOMAIN session.cookies)
        members == [i \in 1..Len(names) |-> <<names[i], session.cookies[names[i]]>>]
    IN  << <<"cookies", members>>,
           <<"base_url", session.base_url>>,
           <<"created_at", session.created_at>> >>

\* json.loads: an object becomes a dict; of a repeated name the last member wins
JsonObject(members) ==
    [k \in {members[i][1] : i \in DOMAIN members} |->
        LET last == CHOOSE i \in DOMAIN members :
                        /\ members[i][1] = k
                        /\ \A j \in DOMAIN members : members[j][1] = k => j <= i
        IN  members[last][2]]

JsonLoads(text) ==
    LET top == JsonObject(text)
    IN  [top EXCEPT !["cookies"] = JsonObject(top["cookies"])]

\* ------------------------------------------------------- Redis commands
RedisSetex(db, key, seconds, val) ==
    [k \in DOMAIN db \cup {key} |->
        IF k = key THEN [val |-> val, ttl |-> seconds] ELSE db[k]]

RedisGet(db, key) == IF key \in DOMAIN db THEN Some(db[key].val) ELSE None

\* EXPIRE that creates the key it does not find (an empty session under it)
RedisExpire_Creates(db, key, seconds) ==
    RedisSetex(db, key, seconds,
               IF key \in DOMAIN db THEN db[key].val
               ELSE JsonDumps([cookies |-> <<>>, base_url |-> "", created_at |-> ""]))

RedisExpire(db, key, seconds) ==
    IF key \in DOMAIN db THEN [db EXCEPT ![key].ttl = seconds] ELSE db

RedisDelete(db, key) == [k \in DOMAIN db \ {key} |-> db[k]]

RedisDeleteReply(db, key) == IF key \in DOMAIN db THEN 1 ELSE 0

RedisExists(db, key) == IF key \in DOMAIN db THEN 1 ELSE 0

RedisTtl(db, key) == IF key \in DOMAIN db THEN db[key].ttl ELSE NoKey

\* One second passes: volatile keys lose a second, those at their last go.
RedisTick(db) ==
    LET keep == {k \in DOMAIN db : db[k].ttl = NoExpiry \/ db[k].ttl > 1}
    IN  [k \in keep |->
            IF db[k].ttl = NoExpiry THEN db[k] ELSE [db[k] EXCEPT !.ttl = @ - 1]]

\* --------------------------------------------------------------- history
Active(t) == Key(t) \in DOMAIN redis
Absent(t) == ~Active(t)
Remaining(t) == RedisTtl(redis, Key(t))

NoSession == [cookies |-> <<>>, base_url |-> "", created_at |-> ""]

\* phase and idle after a step that took the keyspace from db to db2;
\* `refreshed` are the tokens whose TTL the step set
PhaseAfter(db, db2, how) ==
    [t \in Tokens |->
        IF Key(t) \in DOMAIN db2 THEN "active"
        ELSE IF Key(t) \in DOMAIN db THEN how
        ELSE phase[t]]

IdleAfter(db2, refreshed, seconds) ==
    [t \in Tokens |->
        IF Key(t) \notin DOMAIN db2 THEN 0
        ELSE IF t \in refreshed THEN 0
        ELSE IF idle[t] + seconds > SessionTTL THEN SessionTTL
        ELSE idle[t] + seconds]

\* A step's effect on the history variables, read off the keyspace before
\* and after it: `how` names the way a key left, `refreshed` the tokens whose
\* TTL the step wrote, `seconds` the time the step took.
History(how, refreshed, seconds) ==
    /\ phase' = PhaseAfter(redis, redis', how)
    /\ idle' = IdleAfter(redis', refreshed, seconds)

\* ------------------------------------ request dependencies (dependencies.py)
\* the HTTPException get_current_session raises
Unauthorized ==
    [status_code |-> 401, detail |-> "Invalid or expired session token",
     headers |-> [h \in {"WWW-Authenticate"} |-> "Bearer"]]

\* no request resolved by the step
NoAuth == [called |-> FALSE, raised |-> None, session |-> None, client |-> None]

\* get_current_session, given how get_session ended
GetCurrentSession(e) ==
    IF e.ok THEN [raised |-> None, session |-> Some(e.val)]
    ELSE [raised |-> Some(Unauthorized), session |-> None]

\* get_booking_client: the arguments it constructs the BookingClient with
GetBookingClient(session) ==
    [base_url |-> session["base_url"], cookies |-> session["cookies"]]

\* the chain get_current_session -> get_booking_client of a request, run
\* when the step ended a get_session call
Dependencies(e) ==
    IF e.op # "get" THEN NoAuth
    ELSE LET current == GetCurrentSession(e)
         IN  [called |-> TRUE, raised |-> current.raised,
              session |-> current.session,
              client |-> IF current.raised = None
                         THEN Some(GetBookingClient(current.session[1]))
                         ELSE None]

\* ------------------------------------------------------------------ Init
SessionInit ==
    /\ redis = <<>>
    /\ issued = {}
    /\ pc = [k \in Tasks |-> "idle"]
    /\ tok = [k \in Tasks |-> 0]
    /\ data = [k \in Tasks |-> None]
    /\ ev = [op |-> "init", tok |-> 0, ok |-> TRUE, val |-> 0]
    /\ phase = [t \in Tokens |-> "absent"]
    /\ idle = [t \in Tokens |-> 0]
    /\ stored = [t \in Tokens |-> NoSession]
    /\ auth = NoAuth

\* --------------------------------------------------------------- actions
\* a token source that may repeat itself
FreshTokens_MayRepeat == Tokens

\* uuid.uuid4(): a value it has not returned before
FreshTokens == Tokens \ issued

\* store_session writing with SET (no expiry) in place of SETEX
StoreSession_NoExpiry(k, cookies, base_url, now) ==
    /\ UNCHANGED <<clientVars, codecVars, pureVars>>
    /\ pc[k] = "idle"
    /\ \E token \in FreshTokens :
          LET session_data == [cookies |-> cookies, base_url |-> base_url,
                               created_at |-> now]
          IN  /\ redis' = RedisSetex(redis, Key(token), NoExpiry, JsonDumps(session_data))
              /\ issued' = issued \cup {token}
              /\ ev' = [op |-> "store", tok |-> token, ok |-> TRUE, val |-> token]
              /\ stored' = [stored EXCEPT ![token] = session_data]
              /\ History("deleted", {token}, 0)
    /\ UNCHANGED <<pc, tok, data>>
    /\ auth' = Dependencies(ev')

\* SessionManager.store_session
StoreSession(k, cookies, base_url, now) ==
    /\ UNCHANGED <<clientVars, codecVars, pureVars>>
    /\ pc[k] = "idle"
    /\ \E token \in FreshTokens :
          LET session_data == [cookies |-> cookies, base_url |-> base_url,
                               created_at |-> now]
          IN  /\ redis' = RedisSetex(redis, Key(token), SessionTTL, JsonDumps(session_data))
              /\ issued' = issued \cup {token}
              /\ ev' = [op |-> "store", tok |-> token, ok |-> TRUE, val |-> token]
              /\ stored' = [stored EXCEPT ![token] = session_data]
              /\ History("deleted", {token}, 0)
    /\ UNCHANGED <<pc, tok, data>>
    /\ auth' = Dependencies(ev')

\* get_session without the None check: a miss is returned as an empty session
GetSessionRead_NoRaise(k, token) ==
    /\ UNCHANGED <<clientVars, codecVars, pureVars>>
    /\ pc[k] = "idle"
    /\ LET reply == RedisGet(redis, Key(token))
       IN  IF reply = None
           THEN /\ ev' = [op |-> "get", tok |-> token, ok |-> TRUE, val |-> NoSession]
                /\ UNCHANGED <<pc, tok, data>>
           ELSE /\ pc' = [pc EXCEPT ![k] = "expire"]
                /\ tok' = [tok EXCEPT ![k] = token]
                /\ data' = [data EXCEPT ![k] = reply]
                /\ ev' = [op |-> "get_read", tok |-> token, ok |-> TRUE, val |-> 0]
    /\ UNCHANGED <<redis, issued, phase, idle, stored>>
    /\ auth' = Dependencies(ev')

\* SessionManager.get_session up to its first await: redis.get, and the raise
GetSessionRead(k, token) ==
    /\ UNCHANGED <<clientVars, codecVars, pureVars>>
    /\ pc[k] = "idle"
    /\ LET reply == RedisGet(redis, Key(token))
       IN  IF reply = None
           THEN /\ ev' = [op |-> "get", tok |-> token, ok |-> FALSE,
                          val |-> "SessionNotFoundError"]
                /\ UNCHANGED <<pc, tok, data>>
           ELSE /\ pc' = [pc EXCEPT ![k] = "expire"]
                /\ tok' = [tok EXCEPT ![k] = token]
                /\ data' = [data EXCEPT ![k] = reply]
                /\ ev' = [op |-> "get_read", tok |-> token, ok |-> TRUE, val |-> 0]
    /\ UNCHANGED <<redis, issued, phase, idle, stored>>
    /\ auth' = Dependencies(ev')

\* get_session extending the TTL by the window: expire(key, ttl(key) + self.ttl)
GetSessionExpire_Cumulative(k) ==
    /\ UNCHANGED <<clientVars, codecVars, pureVars>>
    /\ pc[k] = "expire"
    /\ redis' = RedisExpire(redis, Key(tok[k]), RedisTtl(redis, Key(tok[k])) + SessionTTL)
    /\ ev' = [op |-> "get", tok |-> tok[k], ok |-> TRUE, val |-> JsonLoads(data[k][1])]
    /\ pc' = [pc EXCEPT ![k] = "idle"]
    /\ tok' = [tok EXCEPT ![k] = 0]
    /\ data' = [data EXCEPT ![k] = None]
    /\ History("deleted", {tok[k]}, 0)
    /\ UNCHANGED <<issued, stored>>
    /\ auth' = Dependencies(ev')

\* get_session refreshing by writing the value back: setex(key, self.ttl, data)
GetSessionExpire_WriteBack(k) ==
    /\ UNCHANGED <<clientVars, codecVars, pureVars>>
    /\ pc[k] = "expire"
    /\ redis' = RedisSetex(redis, Key(tok[k]), SessionTTL, data[k][1])
    /\ ev' = [op |-> "get", tok |-> tok[k], ok |-> TRUE, val |-> JsonLoads(data[k][1])]
    /\ pc' = [pc EXCEPT ![k] = "idle"]
    /\ tok' = [tok EXCEPT ![k] = 0]
    /\ data' = [data EXCEPT ![k] = None]
    /\ History("deleted", {tok[k]}, 0)
    /\ UNCHANGED <<issued, stored>>
    /\ auth' = Dependencies(ev')

\* SessionManager.get_session from redis.expire to the return
GetSessionExpire(k) ==
    /\ UNCHANGED <<clientVars, codecVars, pureVars>>
    /\ pc[k] = "expire"
    /\ redis' = RedisExpire(redis, Key(tok[k]), SessionTTL)
    /\ ev' = [op |-> "get", tok |-> tok[k], ok |-> TRUE, val |-> JsonLoads(data[k][1])]
    /\ pc' = [pc EXCEPT ![k] = "idle"]
    /\ tok' = [tok EXCEPT ![k] = 0]
    /\ data' = [data EXCEPT ![k] = None]
    /\ History("deleted", {tok[k]}, 0)
    /\ UNCHANGED <<issued, stored>>
    /\ auth' = Dependencies(ev')

\* delete_session with deleted = result >= 0
DeleteSession_AlwaysTrue(k, token) ==
    /\ UNCHANGED <<clientVars, codecVars, pureVars>>
    /\ pc[k] = "idle"
    /\ redis' = RedisDelete(redis, Key(token))
    /\ ev' = [op |-> "delete", tok |-> token, ok |-> TRUE,
              val |-> (RedisDeleteReply(redis, Key(token)) >= 0)]
    /\ History("deleted", {}, 0)
    /\ UNCHANGED <<issued, pc, tok, data, stored>>
    /\ auth' = Dependencies(ev')

\* SessionManager.delete_session
DeleteSession(k, token) ==
    /\ UNCHANGED <<clientVars, codecVars, pureVars>>
    /\ pc[k] = "idle"
    /\ redis' = RedisDelete(redis, Key(token))
    /\ ev' = [op |-> "delete", tok |-> token, ok |-> TRUE,
              val |-> (RedisDeleteReply(redis, Key(token)) > 0)]
    /\ History("deleted", {}, 0)
    /\ UNCHANGED <<issued, pc, tok, data, stored>>
    /\ auth' = Dependencies(ev')

\* session_exists implemented with EXPIRE, which also answers 1 or 0
SessionExists_Touch(k, token) ==
    /\ UNCHANGED <<clientVars, codecVars, pureVars>>
    /\ pc[k] = "idle"
    /\ redis' = RedisExpire(redis, Key(token), SessionTTL)
    /\ ev' = [op |-> "exists", tok |-> token, ok |-> TRUE,
              val |-> (RedisExists(redis, Key(token)) > 0)]
    /\ History("deleted", {token}, 0)
    /\ UNCHANGED <<issued, pc, tok, data, stored>>
    /\ auth' = Dependencies(ev')

\* SessionManager.session_exists
SessionExists(k, token) ==
    /\ UNCHANGED <<clientVars, codecVars, pureVars>>
    /\ pc[k] = "idle"
    /\ ev' = [op |-> "exists", tok |-> token, ok |-> TRUE,
              val |-> (RedisExists(redis, Key(token)) > 0)]
    /\ UNCHANGED <<redis, issued, pc, tok, data, phase, idle, stored>>
    /\ auth' = Dependencies(ev')

\* SessionManager.get_ttl
GetTtl(k, token) ==
    /\ UNCHANGED <<clientVars, codecVars, pureVars>>
    /\ pc[k] = "idle"
    /\ ev' = [op |-> "ttl", tok |-> token, ok |-> TRUE, val |-> RedisTtl(redis, Key(token))]
    /\ UNCHANGED <<redis, issued, pc, tok, data, phase, idle, stored>>
    /\ auth' = Dependencies(ev')

\* The Redis clock advances by one second; keys whose time is up expire.
Tick ==
    /\ UNCHANGED <<clientVars, codecVars, pureVars>>
    /\ redis' = RedisTick(redis)
    /\ ev' = [op |-> "tick", tok |-> 0, ok |-> TRUE, val |-> 0]
    /\ History("expired", {}, 1)
    /\ UNCHANGED <<issued, pc, tok, data, stored>>
    /\ auth' = Dependencies(ev')

\* ======================================================================
\* BookingClient: api/app/services/booking_client.py and the parsers of
\* api/app/utils/html_parser.py it calls
\* ======================================================================
\* Texts are sequences of tokens (single characters where a prefix matters).
Whitespace == {" ", "\n", "\t"}

RECURSIVE LStrip(_)
LStrip(s) == IF s # <<>> /\ Head(s) \in Whitespace THEN LStrip(Tail(s)) ELSE s

RECURSIVE RStrip(_)
RStrip(s) ==
    IF s # <<>> /\ s[Len(s)] \in Whitespace THEN RStrip(SubSeq(s, 1, Len(s) - 1)) ELSE s

\* str.strip()
Strip(s) == RStrip(LStrip(s))

\* str.startswith(prefix)
StartsWith(s, prefix) ==
    Len(s) >= Len(prefix) /\ SubSeq(s, 1, Len(prefix)) = prefix

Welcome == <<"W", "e", "l", "c", "o", "m", "e">>

\* parse_login_response without the strip()
ParseLoginResponse_Unstripped(html) ==
    IF html.title = None THEN FALSE
    ELSE StartsWith(html.title[1], Welcome)

\* parse_login_response: the title, stripped, starts with "Welcome"
ParseLoginResponse(html) ==
    IF html.title = None THEN FALSE
    ELSE StartsWith(Strip(html.title[1]), Welcome)

\* dict: a function from its keys; d[name] = value added or overwritten
DictSet(d, name, value) ==
    [k \in DOMAIN d \cup {name} |-> IF k = name THEN value ELSE d[k]]

EmptyDict == [k \in {} |-> ""]

\* row.select("td.slot-actions form input"): of the row's input elements,
\* in document order, those inside a form inside the action cell
FormSelector == "td.slot-actions form"

InForm(input_elem) == input_elem.path = FormSelector

SelectInputs(inputs) == SelectSeq(inputs, InForm)

\* the loop taking every input that has both attributes (empty values too)
RECURSIVE BookingForm_EmptyValues(_, _)
BookingForm_EmptyValues(inputs, form) ==
    IF inputs = <<>> THEN form
    ELSE LET input_elem == Head(inputs)
             name == input_elem.name
         IN  IF name # None /\ name[1] # "" /\ input_elem.value # None
             THEN BookingForm_EmptyValues(Tail(inputs),
                                          DictSet(form, name[1], input_elem.value[1]))
             ELSE BookingForm_EmptyValues(Tail(inputs), form)

\* the for loop over td.slot-actions form input: both name and value truthy
RECURSIVE BookingForm(_, _)
BookingForm(inputs, form) ==
    IF inputs = <<>> THEN form
    ELSE LET input_elem == Head(inputs)
             name == input_elem.name
             value == IF input_elem.value = None THEN "" ELSE input_elem.value[1]
         IN  IF name # None /\ name[1] # "" /\ value # ""
             THEN BookingForm(Tail(inputs), DictSet(form, name[1], value))
             ELSE BookingForm(Tail(inputs), form)

\* parse_availability keeping the rows div.comp-item blocks
RECURSIVE ParseRows_IgnoresBlocked(_)
ParseRows_IgnoresBlocked(rows) ==
    IF rows = <<>> THEN <<>>
    ELSE LET row == Head(rows)
             booking_button == row.inlineBooking
             people_booked == row.player_names > 0
         IN  IF row.cls \notin {"canreserve", "cantreserve"} \/ row.th = None
             THEN ParseRows_IgnoresBlocked(Tail(rows))
             ELSE IF ~people_booked /\ booking_button
             THEN <<[time |-> Strip(row.th[1]), can_book |-> booking_button,
                     booking_form |-> BookingForm(SelectInputs(row.inputs), EmptyDict)]>>
                  \o ParseRows_IgnoresBlocked(Tail(rows))
             ELSE ParseRows_IgnoresBlocked(Tail(rows))

\* parse_availability over the tr.canreserve / tr.cantreserve rows, in order
RECURSIVE ParseRows(_)
ParseRows(rows) ==
    IF rows = <<>> THEN <<>>
    ELSE LET row == Head(rows)
             booking_button == row.inlineBooking
             people_booked == row.player_names > 0
             blocked == row.comp_item
         IN  IF row.cls \notin {"canreserve", "cantreserve"} \/ row.th = None
             THEN ParseRows(Tail(rows))
             ELSE IF ~people_booked /\ ~blocked /\ booking_button
             THEN <<[time |-> Strip(row.th[1]), can_book |-> booking_button,
                     booking_form |-> BookingForm(SelectInputs(row.inputs), EmptyDict)]>>
                  \o ParseRows(Tail(rows))
             ELSE ParseRows(Tail(rows))

ParseAvailability(html) == ParseRows(html.rows)

SuccessSelector ==
    "#globalwrap > div.user-messages.alert.user-message-success.alert-success > ul > li > strong"

expected_message == <<"Now please enter the names of your playing partners.">>

BookingFailedMessage == "Booking failed - time slot may no longer be available"

\* soup.select_one(selector): the first, in document order, of the elements
\* at that location, None when there is none
SelectOne(elements, selector) ==
    LET At(element) == element.path = selector
        found == SelectSeq(elements, At)
    IN  IF found = <<>> THEN None ELSE Some(Head(found))

\* parse_booking_response: (success, error_message)
ParseBookingResponse(html) ==
    LET success_elem == SelectOne(html.strong, SuccessSelector)
    IN  IF /\ success_elem # None
           /\ Strip(success_elem[1].text) = expected_message
        THEN <<TRUE, "">>
        ELSE <<FALSE, BookingFailedMessage>>

\* re.search(r"[?&]edit=([^&]+)", url): the match that starts at position i
RECURSIVE ValueRun(_, _)
ValueRun(url, j) ==
    IF j > Len(url) \/ url[j] = "&" THEN <<>>
    ELSE <<url[j]>> \o ValueRun(url, j + 1)

\* the pattern with only "?" in front of edit=
MatchAt_QuestionOnly(url, i) ==
    /\ i + 3 <= Len(url)
    /\ url[i] = "?"
    /\ url[i + 1] = "edit"
    /\ url[i + 2] = "="
    /\ url[i + 3] # "&"

MatchAt(url, i) ==
    /\ i + 3 <= Len(url)
    /\ url[i] \in {"?", "&"}
    /\ url[i + 1] = "edit"
    /\ url[i + 2] = "="
    /\ url[i + 3] # "&"

\* extract_booking_id: group(1) of the leftmost match, or None
ExtractBookingId(url) ==
    LET hits == {i \in 1..Len(url) : MatchAt(url, i)}
    IN  IF hits = {} THEN None
        ELSE Some(ValueRun(url, (CHOOSE i \in hits : \A h \in hits : i <= h) + 3))

\* str(n) of a small non-negative integer
Str(n) ==
    CASE n = 0 -> "0" [] n = 1 -> "1" [] n = 2 -> "2" [] n = 3 -> "3"
      [] n = 4 -> "4" [] n = 5 -> "5" [] n = 6 -> "6" [] n = 7 -> "7"
      [] n = 8 -> "8" [] n = 9 -> "9"

\* ---------------------------------------------------------------- bounds
MaxOpens == 2       \* HTTP contexts per client the history counts up to

\* ------------------------------------------------------ client inputs
Clients == {"c1", "c2"}

\* get_random_user_agent(): one of the pool USER_AGENTS
USER_AGENTS ==
    { "Mozilla/5.0 (Windows NT 10.0; Win64; x64) Chrome/120.0.0.0",
      "Mozilla/5.0 (Macintosh; Intel Mac OS X 10_15_7) Safari/605.1.15" }

GetRandomUserAgent == USER_AGENTS

DEFAULT_HEADERS ==
    [h \in {"Accept", "Accept-Language", "Accept-Encoding", "Connection",
            "Upgrade-Insecure-Requests"} |->
        CASE h = "Accept" -> "text/html,application/xhtml+xml,application/xml;q=0.9,*/*;q=0.8"
          [] h = "Accept-Language" -> "en-US,en;q=0.5"
          [] h = "Accept-Encoding" -> "gzip, deflate"
          [] h = "Connection" -> "keep-alive"
          [] h = "Upgrade-Insecure-Requests" -> "1"]

\* BookingClient(base_url, cookies): the arguments an instance is built with
ConstructorInputs ==
    { [base_url |-> <<"https://booking.example.com", "/">>,
       cookies |-> Some([n \in {"session"} |-> "existing123"])],
      [base_url |-> <<"https://other.example.com">>,
       cookies |-> None] }

\* two instances alive at once, as two requests each get their own
PairInputs ==
    [c \in Clients |->
        CHOOSE in \in ConstructorInputs : (in.cookies = None) <=> (c = "c2")]

\* base_url.rstrip("/")
RECURSIVE RStripSlash(_)
RStripSlash(s) ==
    IF s # <<>> /\ s[Len(s)] = "/" THEN RStripSlash(SubSeq(s, 1, Len(s) - 1)) ELSE s

\* BookingClient.__init__; `cookies or {}` is its left operand when that is
\* truthy, so self._initial_cookies is then the caller's dict itself
\* (aliased), and a dict of its own otherwise; `given` is history: the
\* entries of the cookies argument as the constructor ran
Construct(base_url, cookies, user_agent) ==
    [base_url |-> RStripSlash(base_url),
     user_agent |-> user_agent,
     initial_cookies |-> IF cookies = None \/ DOMAIN cookies[1] = {}
                         THEN EmptyDict ELSE cookies[1],
     aliased |-> cookies # None /\ DOMAIN cookies[1] # {},
     given |-> IF cookies = None THEN EmptyDict ELSE cookies[1]]

\* the slots and counts callers pass to book_time_slot
TimeSlots ==
    { [time |-> <<"09:00">>, can_book |-> TRUE,
       booking_form |-> [n \in {"date", "time"} |->
                            IF n = "date" THEN "15-01-2025" ELSE "09:00"]],
      [time |-> <<"11:00">>, can_book |-> TRUE, booking_form |-> EmptyDict],
      [time |-> <<"12:00">>, can_book |-> TRUE,
       booking_form |-> [n \in {"time", "numslots"} |->
                            IF n = "time" THEN "12:00" ELSE "9"]],
      [time |-> <<"10:00">>, can_book |-> FALSE,
       booking_form |-> [n \in {"date", "numslots"} |->
                            IF n = "date" THEN "15-01-2025" ELSE "9"]] }

NumSlotsInputs == 0..5
SlotNumInputs == 1..5
BookingIds == {"BOOK123"}
PartnerIds == {"PARTNER456"}
Dates == {"15-01-2025"}
Credentials == {[username |-> "testuser", pin |-> "1234"]}

\* ------------------------------------------------- what the site answers
\* a page: its title if any, its strong elements in document order, its
\* table rows
NoPage == [title |-> None, strong |-> <<>>, rows |-> <<>>]

WelcomePage ==
    [NoPage EXCEPT !.title = Some(<<"\n", " ">> \o Welcome \o <<",", " ", "J">>)]

LoginPage == [NoPage EXCEPT !.title = Some(<<"L", "o", "g", "i", "n">>)]

\* titles that are not a welcome: lowercase, empty, blank, cut short,
\* "Welcome" after other text
OtherTitles ==
    { <<"w", "e", "l", "c", "o", "m", "e", " ", "J">>, <<>>, <<" ", "\n">>,
      <<"W", "e", "l">>, <<"x", " ">> \o Welcome }

OtherPages == { [NoPage EXCEPT !.title = Some(title)] : title \in OtherTitles }

ConfirmedPage ==
    [NoPage EXCEPT !.strong =
        << [path |-> SuccessSelector,
            text |-> <<"\n">> \o expected_message \o <<" ">>] >>]

MisplacedBannerPage ==
    [NoPage EXCEPT !.strong =
        << [path |-> "div.user-message-success > strong",
            text |-> expected_message] >>]

AvailabilityPage ==
    [NoPage EXCEPT !.rows =
        << [cls |-> "canreserve", th |-> Some(<<" ", "09:00", "\n">>),
            inlineBooking |-> TRUE, player_names |-> 0, comp_item |-> FALSE,
            inputs |-> << [name |-> Some("date"), value |-> Some("15-01-2025"),
                           path |-> FormSelector],
                          [name |-> Some("time"), value |-> None,
                           path |-> FormSelector],
                          [name |-> None, value |-> Some("x"),
                           path |-> FormSelector] >>],
           [cls |-> "cantreserve", th |-> Some(<<"10:00">>),
            inlineBooking |-> FALSE, player_names |-> 2, comp_item |-> FALSE,
            inputs |-> <<>>] >>]

SiteCookie == Some([n \in {"session"} |-> "xyz789"])

Answer(status_code, html, url, set_cookie) ==
    [error |-> "", status_code |-> status_code, html |-> html, url |-> url,
     set_cookie |-> set_cookie]

\* httpx.ConnectError, httpx.ReadTimeout: no response at all
TransportFailures ==
    { [error |-> e, status_code |-> 0, html |-> NoPage, url |-> <<>>,
       set_cookie |-> None] : e \in {"ConnectError", "ReadTimeout"} }

HomeUrl == <<"https://booking.example.com", "/">>

LoginResponses ==
    { Answer(200, WelcomePage, HomeUrl, SiteCookie),
      Answer(200, LoginPage, HomeUrl, None),
      Answer(200, NoPage, HomeUrl, None),
      Answer(500, NoPage, HomeUrl, None) }
    \cup { Answer(200, html, HomeUrl, None) : html \in OtherPages }
    \cup TransportFailures

AvailabilityResponses ==
    { Answer(200, AvailabilityPage, HomeUrl, None),
      Answer(500, NoPage, HomeUrl, None) } \cup TransportFailures

\* the final URLs a booking request is redirected to
BookingUrls ==
    { HomeUrl \o <<"memberbooking", "/", "?", "edit", "=", "BOOK123">>,
      HomeUrl \o <<"memberbooking", "/", "?", "date", "=", "15-01-2025">>,
      HomeUrl \o <<"memberbooking", "/", "?", "edit", "=", "&", "edit", "=",
                   "BOOK456", "&", "x", "=", "1">>,
      HomeUrl \o <<"memberbooking", "/", "?", "edit", "=">> }

BookingResponses ==
    { Answer(200, html, url, None) :
        html \in {ConfirmedPage, MisplacedBannerPage, NoPage}, url \in BookingUrls }
    \cup { Answer(500, ConfirmedPage, url, None) : url \in BookingUrls }
    \cup TransportFailures

PartnerResponses ==
    { Answer(s, html, HomeUrl, None) :
        s \in {200, 204, 404, 500}, html \in {ConfirmedPage, NoPage} }
    \cup TransportFailures

\* httpx.Response.is_success
IsSuccess(status_code) == 200 <= status_code /\ status_code <= 299

\* ------------------------------------------------------- client helpers
NoArgs == [n \in {} |-> ""]
NoRequest == [method |-> "", url |-> <<>>, params |-> EmptyDict,
              headers |-> EmptyDict, cookies |-> EmptyDict]
NoResponse == [error |-> "", status_code |-> 0, html |-> NoPage, url |-> <<>>,
               set_cookie |-> None]

Error(type, message) == [type |-> type, message |-> message]

\* what a client step leaves in cev
Event(c, op, kind, args, req, resp, val, reqs) ==
    [client |-> c, op |-> op, kind |-> kind, args |-> args, req |-> req,
     resp |-> resp, val |-> val, reqs |-> reqs]

\* a context built without the instance's user agent
AsyncClient_DefaultAgent(c) ==
    [headers |-> DEFAULT_HEADERS, cookies |-> cfg[c].initial_cookies]

\* httpx.AsyncClient(headers={**DEFAULT_HEADERS, "User-Agent": ...}, cookies=...)
AsyncClient(c) ==
    [headers |-> DictSet(DEFAULT_HEADERS, "User-Agent", cfg[c].user_agent),
     cookies |-> cfg[c].initial_cookies]

\* _ensure_client: self._client once it has run
EnsureClient(c) == IF http[c] = None THEN Some(AsyncClient(c)) ELSE http[c]

Acquired(c) ==
    [opens EXCEPT ![c] = IF http[c] = None /\ @ < MaxOpens THEN @ + 1 ELSE @]

\* {**a, **b}
DictMerge(a, b) ==
    [k \in DOMAIN a \cup DOMAIN b |-> IF k \in DOMAIN b THEN b[k] ELSE a[k]]

\* the request self._client sends: its headers and its cookie jar go along
Request(client, method, url, params, headers) ==
    [method |-> method, url |-> url, params |-> params,
     headers |-> DictMerge(client.headers, headers),
     cookies |-> client.cookies]

\* the jar after a response: Set-Cookie values are merged in
Received(client, resp) ==
    IF resp.set_cookie = None THEN client
    ELSE [client EXCEPT !.cookies = DictMerge(@, resp.set_cookie[1])]

Raise(type, message) == [kind |-> "raise", val |-> Error(type, message)]
Return(v) == [kind |-> "return", val |-> v]
Send == [kind |-> "send", val |-> FALSE]

DryRunBookingId == <<"dryrun-booking-id">>

\* a client that reports every failure as a booking failure
TransportOutcome_AsBookingError(resp) == Raise("BookingError", "Request failed")

\* a transport failure, or raise_for_status() on a response that is no success
TransportOutcome(resp) ==
    IF resp.error # "" THEN Raise(resp.error, "")
    ELSE Raise("HTTPStatusError", "")

\* login, from the response on: raise_for_status, then parse_login_response
LoginResult(resp) ==
    IF resp.error # "" \/ ~IsSuccess(resp.status_code) THEN TransportOutcome(resp)
    ELSE Return(ParseLoginResponse(resp.html))

\* get_availability, from the response on
AvailabilityResult(resp) ==
    IF resp.error # "" \/ ~IsSuccess(resp.status_code) THEN TransportOutcome(resp)
    ELSE Return(ParseAvailability(resp.html))

\* a booking that trusts the redirect URL alone
BookingResult_UrlOnly(resp) ==
    IF resp.error # "" \/ ~IsSuccess(resp.status_code) THEN TransportOutcome(resp)
    ELSE LET booking_id == ExtractBookingId(resp.url)
         IN  IF booking_id = None
             THEN Raise("BookingError", "Could not extract booking ID from response")
             ELSE Return(booking_id[1])

\* book_time_slot, from the response on
BookingResult(resp) ==
    IF resp.error # "" \/ ~IsSuccess(resp.status_code) THEN TransportOutcome(resp)
    ELSE LET parsed == ParseBookingResponse(resp.html)
             booking_id == ExtractBookingId(resp.url)
         IN  IF ~parsed[1] THEN Raise("BookingError", parsed[2])
             ELSE IF booking_id = None \/ booking_id[1] = <<>>
             THEN Raise("BookingError", "Could not extract booking ID from response")
             ELSE Return(booking_id[1])

\* an add_partner that calls raise_for_status() as the other operations do
PartnerResult_RaiseForStatus(resp) ==
    IF resp.error # "" \/ ~IsSuccess(resp.status_code) THEN TransportOutcome(resp)
    ELSE Return(TRUE)

\* add_partner, from the response on: resp.status_code == 200
PartnerResult(resp) ==
    IF resp.error # "" THEN TransportOutcome(resp)
    ELSE Return(resp.status_code = 200)

\* a dry run that returns before any validation
BookCall_DryRunFirst(time_slot, num_slots, dry_run) ==
    IF dry_run THEN Return(DryRunBookingId)
    ELSE IF ~time_slot.can_book THEN Raise("BookingError", "Time slot is not bookable")
    ELSE IF ~(1 <= num_slots /\ num_slots <= 4)
    THEN Raise("BookingError", "num_slots must be between 1 and 4")
    ELSE Send

\* a dry run that goes on to send the request
BookCall_DryRunSends(time_slot, num_slots, dry_run) ==
    IF ~time_slot.can_book THEN Raise("BookingError", "Time slot is not bookable")
    ELSE IF ~(1 <= num_slots /\ num_slots <= 4)
    THEN Raise("BookingError", "num_slots must be between 1 and 4")
    ELSE Send

\* a range check that lets five slots through
BookCall_UpToFive(time_slot, num_slots, dry_run) ==
    IF ~time_slot.can_book THEN Raise("BookingError", "Time slot is not bookable")
    ELSE IF ~(1 <= num_slots /\ num_slots <= 5)
    THEN Raise("BookingError", "num_slots must be between 1 and 4")
    ELSE IF dry_run THEN Return(DryRunBookingId)
    ELSE Send

\* book_time_slot, up to the request: validation, then the dry-run return
BookCall(time_slot, num_slots, dry_run) ==
    IF ~time_slot.can_book THEN Raise("BookingError", "Time slot is not bookable")
    ELSE IF ~(1 <= num_slots /\ num_slots <= 4)
    THEN Raise("BookingError", "num_slots must be between 1 and 4")
    ELSE IF dry_run THEN Return(DryRunBookingId)
    ELSE Send

\* a range check that takes slot 1 for a partner
PartnerCall_FromOne(slot_num, dry_run) ==
    IF ~(1 <= slot_num /\ slot_num <= 4)
    THEN Raise("BookingError", "slot_num must be between 2 and 4")
    ELSE IF dry_run THEN Return(TRUE)
    ELSE Send

\* add_partner, up to the request
PartnerCall(slot_num, dry_run) ==
    IF ~(2 <= slot_num /\ slot_num <= 4)
    THEN Raise("BookingError", "slot_num must be between 2 and 4")
    ELSE IF dry_run THEN Return(TRUE)
    ELSE Send

\* ------------------------------------------------------- client actions
\* a close that only closes the connection pool
Closed_KeepsReference(c) == http

\* instances that share one HTTP context: closing one closes them all
Closed_All(c) == [d \in DOMAIN http |-> None]

\* close(): the context is closed and self._client is None
Closed(c) == [http EXCEPT ![c] = None]

\* the step a call takes up to its first await on the network
CallStep(c, op, args, outcome, req) ==
    /\ pcC[c] = "idle"
    /\ http' = [http EXCEPT ![c] = EnsureClient(c)]
    /\ opens' = Acquired(c)
    /\ pcC' = [pcC EXCEPT ![c] = IF outcome.kind = "send" THEN op ELSE "idle"]
    /\ cev' = IF outcome.kind = "send"
              THEN Event(c, op, "send", args, req, NoResponse, FALSE, 1)
              ELSE Event(c, op, outcome.kind, args, NoRequest, NoResponse,
                         outcome.val, 0)
    /\ UNCHANGED <<cfg, scope>>
    /\ UNCHANGED <<sessionVars, codecVars, pureVars>>

\* a call that sends its request again when the transport fails
ResponseStep_Retries(c, op, resp, outcome) ==
    /\ pcC[c] = op
    /\ http' = IF resp.error # "" THEN http
               ELSE [http EXCEPT ![c] = Some(Received(http[c][1], resp))]
    /\ pcC' = [pcC EXCEPT ![c] = IF resp.error # "" THEN op ELSE "idle"]
    /\ cev' = IF resp.error # ""
              THEN Event(c, op, "send", NoArgs, NoRequest, resp, FALSE, 2)
              ELSE Event(c, op, outcome.kind, NoArgs, NoRequest, resp, outcome.val, 1)
    /\ UNCHANGED <<cfg, scope, opens>>
    /\ UNCHANGED <<sessionVars, codecVars, pureVars>>

\* the step that resumes a call when the network answers or fails
ResponseStep(c, op, resp, outcome) ==
    /\ pcC[c] = op
    /\ http' = IF resp.error # "" THEN http
               ELSE [http EXCEPT ![c] = Some(Received(http[c][1], resp))]
    /\ pcC' = [pcC EXCEPT ![c] = "idle"]
    /\ cev' = Event(c, op, outcome.kind, NoArgs, NoRequest, resp, outcome.val, 1)
    /\ UNCHANGED <<cfg, scope, opens>>
    /\ UNCHANGED <<sessionVars, codecVars, pureVars>>

Path(c, path) == cfg[c].base_url \o <<path>>

\* BookingClient.__aenter__
Enter(c) ==
    /\ pcC[c] = "idle"
    /\ scope[c] = "out"
    /\ http' = [http EXCEPT ![c] = EnsureClient(c)]
    /\ opens' = Acquired(c)
    /\ scope' = [scope EXCEPT ![c] = "in"]
    /\ cev' = Event(c, "aenter", "return", NoArgs, NoRequest, NoResponse, TRUE, 0)
    /\ UNCHANGED <<cfg, pcC>>
    /\ UNCHANGED <<sessionVars, codecVars, pureVars>>

\* BookingClient.__aexit__: the body returned, raised or was cancelled
ExitScope(c, how) ==
    /\ pcC[c] = "idle"
    /\ scope[c] = "in"
    /\ http' = Closed(c)
    /\ scope' = [scope EXCEPT ![c] = "out"]
    /\ cev' = Event(c, "aexit", "return", [how |-> how], NoRequest, NoResponse,
                    TRUE, 0)
    /\ UNCHANGED <<cfg, pcC, opens>>
    /\ UNCHANGED <<sessionVars, codecVars, pureVars>>

\* BookingClient.close
Close(c) ==
    /\ pcC[c] = "idle"
    /\ http' = IF http[c] # None THEN Closed(c) ELSE http
    /\ cev' = Event(c, "close", "return", NoArgs, NoRequest, NoResponse, TRUE, 0)
    /\ UNCHANGED <<cfg, scope, pcC, opens>>
    /\ UNCHANGED <<sessionVars, codecVars, pureVars>>

\* the task is cancelled while the client awaits a response: CancelledError
\* leaves the call and, inside `async with`, unwinds through __aexit__
Cancel(c) ==
    /\ pcC[c] # "idle"
    /\ pcC' = [pcC EXCEPT ![c] = "idle"]
    /\ http' = IF scope[c] = "in" THEN Closed(c) ELSE http
    /\ scope' = [scope EXCEPT ![c] = "out"]
    /\ cev' = Event(c, pcC[c], "raise", [scope |-> scope[c]], NoRequest,
                    NoResponse, Error("CancelledError", ""), 1)
    /\ UNCHANGED <<cfg, opens>>
    /\ UNCHANGED <<sessionVars, codecVars, pureVars>>

\* BookingClient.login, up to the POST
Login(c, username, pin) ==
    CallStep(c, "login", [username |-> username, pin |-> pin], Send,
             Request(EnsureClient(c)[1], "POST", Path(c, "/login.php"),
                     [k \in {"task", "topmenu", "memberid", "pin", "cachemid",
                             "Submit"} |->
                         CASE k = "task" -> "login"
                           [] k = "topmenu" -> "1"
                           [] k = "memberid" -> username
                           [] k = "pin" -> pin
                           [] k = "cachemid" -> "1"
                           [] k = "Submit" -> "Login"],
                     [h \in {"Content-Type"} |->
                         "application/x-www-form-urlencoded"]))

LoginResponse(c, resp) == ResponseStep(c, "login", resp, LoginResult(resp))

\* BookingClient.get_availability, up to the GET
GetAvailability(c, date) ==
    CallStep(c, "get_availability", [date |-> date], Send,
             Request(EnsureClient(c)[1], "GET", Path(c, "/memberbooking/"),
                     [k \in {"date"} |-> date], EmptyDict))

AvailabilityResponse(c, resp) ==
    ResponseStep(c, "get_availability", resp, AvailabilityResult(resp))

\* the query built with the form's own fields last: {"numslots": ..., **form}
BookParams_FormWins(booking_form, num_slots) ==
    [params |-> DictMerge([n \in {"numslots"} |-> Str(num_slots)], booking_form),
     booking_form |-> booking_form]

\* params = {**time_slot.booking_form, "numslots": str(num_slots)}: the new
\* dict that is sent, and the slot's own dict as the statement leaves it
BookParams(booking_form, num_slots) ==
    [params |-> DictSet(booking_form, "numslots", Str(num_slots)),
     booking_form |-> booking_form]

\* BookingClient.book_time_slot, up to the GET; `left` is the slot's booking
\* form as the caller finds it afterwards
BookTimeSlot(c, time_slot, num_slots, dry_run) ==
    LET built == BookParams(time_slot.booking_form, num_slots)
        outcome == BookCall(time_slot, num_slots, dry_run)
    IN  CallStep(c, "book_time_slot",
                 [time_slot |-> time_slot, num_slots |-> num_slots,
                  dry_run |-> dry_run,
                  left |-> IF outcome.kind = "send" THEN built.booking_form
                           ELSE time_slot.booking_form],
                 outcome,
                 Request(EnsureClient(c)[1], "GET", Path(c, "/memberbooking/"),
                         built.params, EmptyDict))

BookingResponse(c, resp) ==
    ResponseStep(c, "book_time_slot", resp, BookingResult(resp))

\* BookingClient.add_partner, up to the GET
AddPartner(c, booking_id, partner_id, slot_num, dry_run) ==
    CallStep(c, "add_partner",
             [booking_id |-> booking_id, partner_id |-> partner_id,
              slot_num |-> slot_num, dry_run |-> dry_run],
             PartnerCall(slot_num, dry_run),
             Request(EnsureClient(c)[1], "GET", Path(c, "/memberbooking/"),
                     [k \in {"edit", "addpartner", "partnerslot"} |->
                         CASE k = "edit" -> booking_id
                           [] k = "addpartner" -> partner_id
                           [] k = "partnerslot" -> Str(slot_num)],
                     EmptyDict))

PartnerResponse(c, resp) ==
    ResponseStep(c, "add_partner", resp, PartnerResult(resp))

\* BookingClient.get_cookies
GetCookies(c) ==
    /\ pcC[c] = "idle"
    /\ cev' = Event(c, "get_cookies", "return", NoArgs, NoRequest, NoResponse,
                    IF http[c] # None THEN http[c][1].cookies ELSE EmptyDict, 0)
    /\ UNCHANGED <<cfg, http, scope, pcC, opens>>
    /\ UNCHANGED <<sessionVars, codecVars, pureVars>>

\* the maps a caller of the client holds: the dict it passed to the
\* constructor, the dict get_cookies returned to it
CallerMaps == {"constructor", "returned"}

\* the cookie a caller writes into a map it holds
CallerCookie == [name |-> "session", value |-> "changed"]

\* the map is an object the client holds too: the constructor's dict when
\* __init__ kept it; never the dict get_cookies returned, which is
\* dict(self._client.cookies) or a new {}
SharedWithClient(c, map) == map = "constructor" /\ cfg[c].aliased

\* the caller writes a cookie into a map it holds: map[name] = value
CallerSetsCookie(c, map) ==
    /\ pcC[c] = "idle"
    /\ map = "returned" => cev.client = c /\ cev.op = "get_cookies"
    /\ cfg' = IF SharedWithClient(c, map)
              THEN [cfg EXCEPT ![c].initial_cookies =
                        DictSet(@, CallerCookie.name, CallerCookie.value)]
              ELSE cfg
    /\ cev' = Event(c, "caller_sets_cookie", "return", [map |-> map], NoRequest,
                    NoResponse, TRUE, 0)
    /\ UNCHANGED <<http, scope, pcC, opens>>
    /\ UNCHANGED <<sessionVars, codecVars, pureVars>>

\* ------------------------------------------------- client specifications
\* no BookingClient exists
ClientParked ==
    /\ cfg = <<>>
    /\ http = <<>>
    /\ scope = <<>>
    /\ pcC = <<>>
    /\ opens = <<>>
    /\ cev = Event("", "init", "return", NoArgs, NoRequest, NoResponse, TRUE, 0)

\* the instances of ins just constructed: no HTTP context yet
Constructed(ins, user_agent) ==
    /\ cfg = [c \in DOMAIN ins |->
                Construct(ins[c].base_url, ins[c].cookies, user_agent[c])]
    /\ http = [c \in DOMAIN ins |-> None]
    /\ scope = [c \in DOMAIN ins |-> "out"]
    /\ pcC = [c \in DOMAIN ins |-> "idle"]
    /\ opens = [c \in DOMAIN ins |-> 0]
    /\ cev = Event("", "init", "return", NoArgs, NoRequest, NoResponse, TRUE, 0)

\* one instance, every way it can be built and called
ClientInit ==
    \E ins \in [{"c1"} -> ConstructorInputs],
       user_agent \in [{"c1"} -> GetRandomUserAgent] : Constructed(ins, user_agent)

ClientNext ==
    \/ \E c \in DOMAIN cfg : Enter(c)
    \/ \E c \in DOMAIN cfg, how \in {"returned", "raised", "cancelled"} :
          ExitScope(c, how)
    \/ \E c \in DOMAIN cfg : Close(c)
    \/ \E c \in DOMAIN cfg : Cancel(c)
    \/ \E c \in DOMAIN cfg, cred \in Credentials :
          Login(c, cred.username, cred.pin)
    \/ \E c \in DOMAIN cfg, resp \in LoginResponses : LoginResponse(c, resp)
    \/ \E c \in DOMAIN cfg, date \in Dates : GetAvailability(c, date)
    \/ \E c \in DOMAIN cfg, resp \in AvailabilityResponses :
          AvailabilityResponse(c, resp)
    \/ \E c \in DOMAIN cfg, time_slot \in TimeSlots,
          num_slots \in NumSlotsInputs, dry_run \in BOOLEAN :
          BookTimeSlot(c, time_slot, num_slots, dry_run)
    \/ \E c \in DOMAIN cfg, resp \in BookingResponses : BookingResponse(c, resp)
    \/ \E c \in DOMAIN cfg, booking_id \in BookingIds, partner_id \in PartnerIds,
          slot_num \in SlotNumInputs, dry_run \in BOOLEAN :
          AddPartner(c, booking_id, partner_id, slot_num, dry_run)
    \/ \E c \in DOMAIN cfg, resp \in PartnerResponses : PartnerResponse(c, resp)
    \/ \E c \in DOMAIN cfg : GetCookies(c)
    \/ \E c \in DOMAIN cfg, map \in CallerMaps : CallerSetsCookie(c, map)

\* two instances side by side, each called with one input of every kind
PairInit ==
    \E user_agent \in [Clients -> GetRandomUserAgent] :
       Constructed(PairInputs, user_agent)

PairSlot == CHOOSE time_slot \in TimeSlots : time_slot.can_book

PairAnswers(responses) ==
    {resp \in responses :
        \/ resp.error = "ConnectError"
        \/ /\ resp.error = "" /\ resp.status_code = 200
           /\ resp.html \in {WelcomePage, AvailabilityPage, ConfirmedPage}
           /\ \/ resp.url = HomeUrl
              \/ ExtractBookingId(resp.url) = Some(<<"BOOK123">>)}

PairNext ==
    \/ \E c \in DOMAIN cfg : Enter(c)
    \/ \E c \in DOMAIN cfg : ExitScope(c, "returned")
    \/ \E c \in DOMAIN cfg : Close(c)
    \/ \E c \in DOMAIN cfg : Cancel(c)
    \/ \E c \in DOMAIN cfg, cred \in Credentials :
          Login(c, cred.username, cred.pin)
    \/ \E c \in DOMAIN cfg, resp \in PairAnswers(LoginResponses) :
          LoginResponse(c, resp)
    \/ \E c \in DOMAIN cfg, date \in Dates : GetAvailability(c, date)
    \/ \E c \in DOMAIN cfg, resp \in PairAnswers(AvailabilityResponses) :
          AvailabilityResponse(c, resp)
    \/ \E c \in DOMAIN cfg, dry_run \in BOOLEAN :
          BookTimeSlot(c, PairSlot, 1, dry_run)
    \/ \E c \in DOMAIN cfg, resp \in PairAnswers(BookingResponses) :
          BookingResponse(c, resp)
    \/ \E c \in DOMAIN cfg, booking_id \in BookingIds, partner_id \in PartnerIds,
          dry_run \in BOOLEAN : AddPartner(c, booking_id, partner_id, 2, dry_run)
    \/ \E c \in DOMAIN cfg, resp \in PairAnswers(PartnerResponses) :
          PartnerResponse(c, resp)
    \/ \E c \in DOMAIN cfg : GetCookies(c)

\* ======================================================================
\* EncryptionService: api/app/services/encryption.py
\* ======================================================================
MaxStrLen == 2      \* longest username and longest pin tried

NONCE_SIZE == 12

\* the characters credentials are made of: the separator and a letter,
\* one that takes two bytes
Chars == {":", "é"}

Strings == UNION { [1..n -> Chars] : n \in 0..MaxStrLen }

Secrets == {"test-secret-key", "wrong-secret-key"}

\* os.urandom(NONCE_SIZE): the values it is observed to return
Nonces == { [i \in 1..NONCE_SIZE |-> b] : b \in {17, 170} }

\* str.encode(): UTF-8, one or two bytes for each character
Utf8(ch) ==
    CASE ch = ":" -> <<58>>
      [] ch = "é" -> <<195, 169>>

RECURSIVE Encode(_)
Encode(s) == IF s = <<>> THEN <<>> ELSE Utf8(Head(s)) \o Encode(Tail(s))

\* bytes.decode(): None stands for UnicodeDecodeError
RECURSIVE Decode(_)
Decode(bytes) ==
    IF bytes = <<>> THEN Some(<<>>)
    ELSE LET one == {ch \in Chars : Utf8(ch) = SubSeq(bytes, 1, 1)}
             two == {ch \in Chars : Len(bytes) >= 2 /\ Utf8(ch) = SubSeq(bytes, 1, 2)}
             rest == Decode(SubSeq(bytes, IF one # {} THEN 2 ELSE 3, Len(bytes)))
         IN  IF one = {} /\ two = {} THEN None
             ELSE IF rest = None THEN None
             ELSE Some(<<CHOOSE ch \in one \cup two : TRUE>> \o rest[1])

\* hashlib.sha256(shared_secret.encode()).digest()
Sha256(bytes) == <<"sha256", bytes>>

DeriveKey(shared_secret) == Sha256(shared_secret)

\* AESGCM(key).encrypt(nonce, message, None): one cipher byte for each message
\* byte and the authentication tag, readable only under the same key and nonce
AesGcmEncrypt(key, nonce, message) ==
    [i \in 1..Len(message) |-> <<"ct", key, nonce, i, message[i]>>]
        \o << <<"tag", key, nonce, message>> >>

\* AESGCM(key).decrypt reading the cipher bytes without authenticating them
AesGcmDecrypt_Unauthenticated(key, nonce, message) ==
    IF message = <<>> THEN None
    ELSE LET body == SubSeq(message, 1, Len(message) - 1)
         IN  IF \A i \in 1..Len(body) : body[i][1] = "ct"
             THEN Some([i \in 1..Len(body) |-> body[i][5]])
             ELSE None

\* AESGCM(key).decrypt(nonce, message, None): None stands for InvalidTag
AesGcmDecrypt(key, nonce, message) ==
    IF message = <<>> THEN None
    ELSE LET body == SubSeq(message, 1, Len(message) - 1)
             plain == [i \in 1..Len(body) |-> body[i][5]]
         IN  IF /\ \A i \in 1..Len(body) :
                      /\ body[i][1] = "ct" /\ body[i][2] = key
                      /\ body[i][3] = nonce /\ body[i][4] = i
                /\ message[Len(message)] = <<"tag", key, nonce, plain>>
             THEN Some(plain)
             ELSE None

\* A text is a sequence of characters, each one of:
\*   <<"b64", byte>>  the base64 characters that stand for one byte
\*   <<"odd", "A">>   one alphabet character more than a multiple of four
\*   <<"junk", "!">>  an ASCII character outside the base64 alphabet
\*   <<"wide", "é">>  a character outside ASCII
\* base64.b64encode(raw).decode(): the text that stands for raw
B64Encode(raw) == [i \in 1..Len(raw) |-> <<"b64", raw[i]>>]

IsData(ch) == ch[1] = "b64"

\* base64.b64decode(text), validate left False: a str outside ASCII is a
\* ValueError, characters outside the alphabet are discarded, and what is
\* left must be whole groups of four or it is a binascii.Error
B64Decode(text) ==
    IF \E i \in 1..Len(text) : text[i][1] = "wide"
    THEN [error |-> "ValueError", raw |-> <<>>]
    ELSE IF \E i \in 1..Len(text) : text[i][1] = "odd"
    THEN [error |-> "binascii.Error", raw |-> <<>>]
    ELSE LET kept == SelectSeq(text, IsData)
         IN  [error |-> "", raw |-> [i \in 1..Len(kept) |-> kept[i][2]]]

\* decoded.split(":", 1) split at the last separator instead
SplitOnce_AtLast(s) ==
    LET i == CHOOSE k \in 1..Len(s) :
                 s[k] = ":" /\ \A j \in (k + 1)..Len(s) : s[j] # ":"
    IN  <<SubSeq(s, 1, i - 1), SubSeq(s, i + 1, Len(s))>>

\* decoded.split(":", 1)
SplitOnce(s) ==
    LET i == CHOOSE k \in 1..Len(s) : s[k] = ":" /\ \A j \in 1..(k - 1) : s[j] # ":"
    IN  <<SubSeq(s, 1, i - 1), SubSeq(s, i + 1, Len(s))>>

\* encrypt_credentials sealing under one nonce whatever os.urandom returned
Encrypt_StaticNonce(key, username, pin, nonce) ==
    LET plaintext == Encode(username \o <<":">> \o pin)
        static == [i \in 1..NONCE_SIZE |-> 0]
    IN  B64Encode(static \o AesGcmEncrypt(key, static, plaintext))

\* EncryptionService.encrypt_credentials, given the nonce os.urandom returned
Encrypt(key, username, pin, nonce) ==
    LET plaintext == Encode(username \o <<":">> \o pin)
        ciphertext == AesGcmEncrypt(key, nonce, plaintext)
    IN  B64Encode(nonce \o ciphertext)

\* EncryptionService.decrypt_credentials
Decrypt(key, encrypted_data) ==
    LET raw == B64Decode(encrypted_data)
    IN  IF raw.error = "binascii.Error"
        THEN Raise("EncryptionError", "Invalid base64 encoding")
        ELSE IF raw.error = "ValueError"
        THEN Raise("EncryptionError", "Decryption failed")
        ELSE IF Len(raw.raw) < NONCE_SIZE + 1
        THEN Raise("EncryptionError", "Invalid encrypted data: too short")
        ELSE LET nonce == SubSeq(raw.raw, 1, NONCE_SIZE)
                 ciphertext == SubSeq(raw.raw, NONCE_SIZE + 1, Len(raw.raw))
                 plaintext == AesGcmDecrypt(key, nonce, ciphertext)
             IN  IF plaintext = None
                 THEN Raise("EncryptionError", "Decryption failed")
                 ELSE LET decoded == Decode(plaintext[1])
                      IN  IF decoded = None
                          THEN Raise("EncryptionError", "Decryption failed")
                          ELSE IF \A k \in 1..Len(decoded[1]) : decoded[1][k] # ":"
                          THEN Raise("EncryptionError",
                                     "Invalid credential format: missing separator")
                          ELSE Return(SplitOnce(decoded[1]))

\* get_encryption_service: the one service of a process and its secret
ServiceSecret == "test-secret-key"

\* no EncryptionService call made
CodecParked ==
    /\ nonces = {}
    /\ sealed = <<>>
    /\ cx = [op |-> "init", secret |-> "", username |-> <<>>, pin |-> <<>>,
             sealed_by |-> "", out |-> Return(FALSE)]

\* a caller encrypts a pair of credentials; os.urandom hands out twelve
\* bytes it has not handed out before
EncryptCredentials(shared_secret, username, pin) ==
    /\ \E nonce \in Nonces \ nonces :
          LET out == Encrypt(DeriveKey(shared_secret), username, pin, nonce)
          IN  /\ nonces' = nonces \cup {nonce}
              /\ sealed' = Append(sealed, [secret |-> shared_secret,
                                           username |-> username,
                                           pin |-> pin, out |-> out])
              /\ cx' = [op |-> "encrypt", secret |-> shared_secret,
                        username |-> username, pin |-> pin,
                        sealed_by |-> shared_secret, out |-> Return(out)]
    /\ UNCHANGED <<sessionVars, clientVars, pureVars>>

\* a service decrypts what encrypt_credentials just returned
DecryptCredentials(shared_secret) ==
    /\ cx.op = "encrypt"
    /\ cx' = [cx EXCEPT !.op = "decrypt", !.secret = shared_secret,
                        !.out = Decrypt(DeriveKey(shared_secret), cx.out.val)]
    /\ UNCHANGED <<nonces, sealed>>
    /\ UNCHANGED <<sessionVars, clientVars, pureVars>>

CodecNext ==
    \/ \E username \in Strings, pin \in Strings :
          EncryptCredentials(ServiceSecret, username, pin)
    \/ \E shared_secret \in Secrets : DecryptCredentials(shared_secret)

\* ------------------------------------------- decrypt_credentials, alone
\* nonce + ciphertext, base64-encoded, for any message bytes
Seal(key, nonce, message) == B64Encode(nonce \o AesGcmEncrypt(key, nonce, message))

Flip(byte) == (byte + 1) % 256

\* the bytes of an envelope with one of them replaced
Altered(envelope, i, element) ==
    B64Encode([B64Decode(envelope).raw EXCEPT ![i] = element])

\* what a caller can make of an envelope before handing it to
\* decrypt_credentials
Variants ==
    {"genuine", "nonce", "ciphertext", "tag", "junk", "odd", "wide", "cut"}

Variant(kind, envelope) ==
    LET raw == B64Decode(envelope).raw
        ct == raw[NONCE_SIZE + 1]
        tag == raw[Len(raw)]
    IN  CASE kind = "genuine" -> envelope
          [] kind = "nonce" -> Altered(envelope, 1, Flip(raw[1]))
          [] kind = "ciphertext" ->
                Altered(envelope, NONCE_SIZE + 1,
                        <<"ct", ct[2], ct[3], ct[4], Flip(ct[5])>>)
          [] kind = "tag" ->
                Altered(envelope, Len(raw),
                        <<"tag", tag[2], tag[3], tag[4] \o <<0>> >>)
          [] kind = "junk" -> << <<"junk", "!">> >> \o envelope
          [] kind = "odd" -> envelope \o << <<"odd", "A">> >>
          [] kind = "wide" -> envelope \o << <<"wide", "é">> >>
          [] kind = "cut" -> SubSeq(envelope, 1, 5)

\* messages sealed by a holder of the key that are not "username:pin":
\* text without a separator, and bytes that are not UTF-8
Unframed == {Encode(t) : t \in {u \in Strings : \A k \in 1..Len(u) : u[k] # ":"}}
               \cup {<<255>>}

\* texts no envelope went into
Written == { <<>>, [i \in 1..4 |-> <<"junk", "!">>], << <<"odd", "A">> >>,
             << <<"wide", "é">> >> }

DecryptCall(shared_secret, encrypted_data, sealed_by, variant) ==
    [fn |-> "decrypt_credentials",
     arg |-> [secret |-> shared_secret, encrypted_data |-> encrypted_data],
     made |-> [sealed_by |-> sealed_by, variant |-> variant],
     done |-> FALSE, out |-> Return(FALSE)]

\* a service is about to decrypt a text it received
DecryptInit ==
    \E shared_secret \in Secrets :
        \/ \E sealed_by \in Secrets, username \in Strings, pin \in Strings,
              nonce \in Nonces, variant \in Variants :
              fx = DecryptCall(shared_secret,
                               Variant(variant, Encrypt(DeriveKey(sealed_by),
                                                        username, pin, nonce)),
                               sealed_by, variant)
        \/ \E sealed_by \in Secrets, nonce \in Nonces, message \in Unframed :
              fx = DecryptCall(shared_secret,
                               Seal(DeriveKey(sealed_by), nonce, message),
                               sealed_by, "unframed")
        \/ \E text \in Written :
              fx = DecryptCall(shared_secret, text, "", "written")

\* the service decrypts it
CallDecryptCredentials ==
    /\ fx.fn = "decrypt_credentials" /\ ~fx.done
    /\ fx' = [fx EXCEPT !.done = TRUE,
                        !.out = Decrypt(DeriveKey(fx.arg.secret),
                                        fx.arg.encrypted_data)]
    /\ UNCHANGED <<sessionVars, clientVars, codecVars>>

\* ---------------------------------------------- the parsers, alone
PureCall(fn, arg) == [fn |-> fn, arg |-> arg, done |-> FALSE, out |-> Return(FALSE)]

MaxRows == 2        \* most table rows on an availability page

Input(name, value, path) == [name |-> name, value |-> value, path |-> path]

FormInputs ==
    << Input(Some("date"), Some("15-01-2025"), FormSelector),
       Input(Some("time"), Some("09:00"), FormSelector) >>

\* inputs the loop skips: no value, an empty value, no name, an empty name
BareInputs ==
    << Input(Some("date"), None, FormSelector),
       Input(Some("time"), Some(""), FormSelector),
       Input(None, Some("x"), FormSelector),
       Input(Some(""), Some("y"), FormSelector) >>

\* a name given twice, an input of the action cell outside the form, an
\* input of another cell of the row
MixedInputs ==
    << Input(Some("date"), Some("16-01-2025"), FormSelector),
       Input(Some("search"), Some("q"), "td.slot-actions"),
       Input(Some("date"), Some("17-01-2025"), FormSelector),
       Input(Some("filter"), Some("all"), "td") >>

Row(cls, th, inlineBooking, player_names, comp_item, inputs) ==
    [cls |-> cls, th |-> th, inlineBooking |-> inlineBooking,
     player_names |-> player_names, comp_item |-> comp_item, inputs |-> inputs]

\* the table rows a page is made of, each with a time of its own
Rows ==
    { Row("canreserve", Some(<<"09:00">>), TRUE, 0, FALSE, FormInputs),
      Row("cantreserve", Some(<<"\n", " ", "10:00", " ">>), TRUE, 0, FALSE, FormInputs),
      Row("canreserve", Some(<<"11:00">>), TRUE, 0, FALSE, <<>>),
      Row("canreserve", Some(<<"12:00">>), TRUE, 0, FALSE, BareInputs),
      Row("canreserve", Some(<<"13:00">>), TRUE, 2, FALSE, FormInputs),
      Row("canreserve", Some(<<"14:00">>), TRUE, 0, TRUE, FormInputs),
      Row("canreserve", Some(<<"15:00">>), FALSE, 0, FALSE, FormInputs),
      Row("cantreserve", Some(<<"16:00">>), FALSE, 1, TRUE, <<>>),
      Row("canreserve", None, TRUE, 0, FALSE, FormInputs),
      Row("other", Some(<<"17:00">>), TRUE, 0, FALSE, FormInputs),
      Row("canreserve", Some(<<>>), TRUE, 0, FALSE, FormInputs),
      Row("canreserve", Some(<<"18:00">>), TRUE, 0, FALSE, MixedInputs) }

AvailabilityPages ==
    { [NoPage EXCEPT !.rows = rows] :
        rows \in UNION { [1..n -> Rows] : n \in 0..MaxRows } }

AvailabilityInit ==
    \E html \in AvailabilityPages : fx = PureCall("parse_availability", html)

CallParseAvailability ==
    /\ fx.fn = "parse_availability" /\ ~fx.done
    /\ fx' = [fx EXCEPT !.done = TRUE, !.out = Return(ParseAvailability(fx.arg))]
    /\ UNCHANGED <<sessionVars, clientVars, codecVars>>

MaxElements == 2    \* most strong elements on a booking response page

\* strong elements: the confirmation where the selector looks, another
\* message there, the confirmation elsewhere
StrongElements ==
    { [path |-> SuccessSelector, text |-> <<" ">> \o expected_message \o <<"\n">>],
      [path |-> SuccessSelector, text |-> <<"Unexpected message">>],
      [path |-> "div.user-message-success > strong", text |-> expected_message] }

BookingPages ==
    { [NoPage EXCEPT !.strong = elements] :
        elements \in UNION { [1..n -> StrongElements] : n \in 0..MaxElements } }

BookingResponseInit ==
    \E html \in BookingPages : fx = PureCall("parse_booking_response", html)

CallParseBookingResponse ==
    /\ fx.fn = "parse_booking_response" /\ ~fx.done
    /\ fx' = [fx EXCEPT !.done = TRUE, !.out = Return(ParseBookingResponse(fx.arg))]
    /\ UNCHANGED <<sessionVars, clientVars, codecVars>>

MaxParams == 2      \* most query parameters of a redirect URL

\* one query parameter: separator, key, "=" or not, value or not
Params ==
    { <<sep, key>> \o eq \o value :
        sep \in {"?", "&"}, key \in {"edit", "date"}, eq \in {<<>>, <<"=">>},
        value \in {<<>>, <<"BOOK123">>, <<"15-01-2025">>} }

RECURSIVE Flatten(_)
Flatten(parts) == IF parts = <<>> THEN <<>> ELSE Head(parts) \o Flatten(Tail(parts))

RedirectUrls ==
    { HomeUrl \o <<"memberbooking", "/">> \o Flatten(params) :
        params \in UNION { [1..n -> Params] : n \in 0..MaxParams } }

BookingIdInit ==
    \E url \in RedirectUrls : fx = PureCall("extract_booking_id", url)

CallExtractBookingId ==
    /\ fx.fn = "extract_booking_id" /\ ~fx.done
    /\ fx' = [fx EXCEPT !.done = TRUE, !.out = Return(ExtractBookingId(fx.arg))]
    /\ UNCHANGED <<sessionVars, clientVars, codecVars>>

\* ------------------------------------------ get_session_manager, alone
DEFAULT_TTL == 1800

\* Settings.session_ttl: the default and values an operator sets
SettingsInputs == { [session_ttl |-> seconds] : seconds \in {1800, 600, 3600} }

\* SessionManager.__init__(redis, ttl=DEFAULT_TTL): ttl given or left out
SessionManager(ttl) == [ttl |-> IF ttl = None THEN DEFAULT_TTL ELSE ttl[1]]

\* get_session_manager: SessionManager(redis)
GetSessionManager(settings) == SessionManager(None)

\* the TTL of the record store_session of that manager writes
WrittenTtl(manager) ==
    RedisTtl(RedisSetex(<<>>, Key(1), manager.ttl, <<>>), Key(1))

SessionManagerInit ==
    \E settings \in SettingsInputs : fx = PureCall("get_session_manager", settings)

CallGetSessionManager ==
    /\ fx.fn = "get_session_manager" /\ ~fx.done
    /\ LET manager == GetSessionManager(fx.arg)
       IN  fx' = [fx EXCEPT !.done = TRUE,
                            !.out = Return([ttl |-> manager.ttl,
                                            written |-> WrittenTtl(manager)])]
    /\ UNCHANGED <<sessionVars, clientVars, codecVars>>

\* no pure function called
PureParked == fx = [fn |-> "none"]

\* ------------------------------------------------------- specifications
Init == SessionInit /\ ClientParked /\ CodecParked /\ PureParked

Next ==
    \/ \E k \in Tasks, in \in StoreInputs, now \in Timestamps :
          StoreSession(k, in.cookies, in.base_url, now)
    \/ \E k \in Tasks, t \in Tokens : GetSessionRead(k, t)
    \/ \E k \in Tasks : GetSessionExpire(k)
    \/ \E k \in Tasks, t \in Tokens : DeleteSession(k, t)
    \/ \E k \in Tasks, t \in Tokens : SessionExists(k, t)
    \/ \E k \in Tasks, t \in Tokens : GetTtl(k, t)
    \/ Tick

Spec == Init /\ [][Next]_vars

\* the session store left empty and untouched
SessionParked == SessionInit

ClientSpecInit == SessionParked /\ ClientInit /\ CodecParked /\ PureParked

ClientSpec == ClientSpecInit /\ [][ClientNext]_vars

PairSpecInit == SessionParked /\ PairInit /\ CodecParked /\ PureParked

PairSpec == PairSpecInit /\ [][PairNext]_vars

CodecSpecInit == SessionParked /\ ClientParked /\ CodecParked /\ PureParked

CodecSpec == CodecSpecInit /\ [][CodecNext]_vars


PureInit ==
    \/ DecryptInit \/ AvailabilityInit \/ BookingResponseInit \/ BookingIdInit
    \/ SessionManagerInit

PureNext ==
    \/ CallDecryptCredentials
    \/ CallParseAvailability
    \/ CallParseBookingResponse
    \/ CallExtractBookingId
    \/ CallGetSessionManager

PureSpecInit == SessionParked /\ ClientParked /\ CodecParked /\ PureInit

PureSpec == PureSpecInit /\ [][PureNext]_vars


\* ---------------------------------------------------------------- claims
\* How a step shows in ev and pc: a call of get_session on t starts (and, on
\* a miss, also ends) in a step no task takes from "expire"; a call that read
\* a value returns in a step that takes its task from "expire" to "idle".
GetCalled(t) ==
    /\ ev'.op \in {"get", "get_read"}
    /\ ev'.tok = t
    /\ \A k \in Tasks : pc[k] = "expire" => pc'[k] = "expire"

GetReturned(t) ==
    /\ ev'.op = "get"
    /\ ev'.tok = t
    /\ \E k \in Tasks : pc[k] = "expire" /\ pc'[k] = "idle"

CallOn(t) ==
    /\ ev'.op \in {"store", "get", "get_read", "delete", "exists", "ttl"}
    /\ ev'.tok = t

\* the record of token u is the same before and after the step
SameRecord(u) ==
    /\ (Key(u) \in DOMAIN redis') = (Key(u) \in DOMAIN redis)
    /\ Key(u) \in DOMAIN redis => redis'[Key(u)] = redis[Key(u)]

C2_TokenLifecycle ==
    [][\A t \in Tokens :
          /\ (Absent(t) /\ Active(t)') =>
                (ev'.op = "store" /\ ev'.tok = t /\ t \notin issued)
          /\ (Active(t) /\ Absent(t)') =>
                \/ ev'.op = "delete" /\ ev'.tok = t
                \/ ev'.op = "tick" /\ Remaining(t) = 1 /\ idle[t] = SessionTTL - 1
          /\ Active(t)' => idle'[t] < SessionTTL
          /\ (Active(t) /\ ev'.op = "tick" /\ idle[t] = SessionTTL - 1) => Absent(t)'
          /\ (Absent(t) /\ GetCalled(t)) =>
                (ev'.op = "get" /\ ~ev'.ok /\ ev'.val = "SessionNotFoundError")
          /\ (Absent(t) /\ ev'.op = "exists" /\ ev'.tok = t) => ev'.val = FALSE
          /\ (Absent(t) /\ ev'.op = "ttl" /\ ev'.tok = t) => ev'.val = NoKey]_vars

C2_Witness ==
    \E t \in Tokens :
        /\ phase[t] = "expired"
        /\ ev.op = "ttl" /\ ev.tok = t /\ ev.val = NoKey

\* C3: a get_session call on a token that is not in the store (never stored,
\* deleted or expired) raises SessionNotFoundError and changes nothing in the
\* store; and the error is raised only for a token that is not in the store.
C3_GetAbsentFailsNotFound ==
    [][\A t \in Tokens :
          /\ (Absent(t) /\ GetCalled(t)) =>
                /\ ev'.op = "get" /\ ~ev'.ok /\ ev'.val = "SessionNotFoundError"
                /\ redis' = redis
                /\ issued' = issued
          /\ (ev'.op = "get" /\ ev'.tok = t /\ ~ev'.ok) => (Absent(t) /\ redis' = redis)]_vars

C3_Witness ==
    \E t \in Tokens, u \in Tokens :
        /\ ev.op = "get" /\ ev.tok = t /\ ~ev.ok
        /\ phase[t] = "expired"
        /\ phase[u] = "deleted"

\* C4 (as claimed): whenever get_session returns a session, the token is
\* Active with the full TTL as the call returns.
C4_GetReturnLeavesActive ==
    (ev.op = "get" /\ ev.ok) => (Active(ev.tok) /\ Remaining(ev.tok) = SessionTTL)

\* C5: a call on token a (store, get, delete, exists, ttl) leaves the record
\* of every other token b as it was: presence, value and remaining TTL.
C5_DistinctTokensIndependent ==
    [][\A a \in Tokens, b \in Tokens :
          (a # b /\ CallOn(a)) => SameRecord(b)]_vars

C5_Witness ==
    \E a \in Tokens, b \in Tokens :
        /\ a # b
        /\ ev.op = "delete" /\ ev.tok = a /\ ev.val = TRUE
        /\ Active(b) /\ Remaining(b) < SessionTTL

\* C6: store_session writes its record under a token that was never issued
\* and is not in the store, with the full TTL and the value it was given, and
\* leaves every record that was in the store as it was.
C6_StoreCreatesFreshRecord ==
    [][ev'.op = "store" =>
          /\ ev'.tok \in Tokens \ issued
          /\ Absent(ev'.tok)
          /\ DOMAIN redis' = DOMAIN redis \cup {Key(ev'.tok)}
          /\ redis'[Key(ev'.tok)] =
                [val |-> JsonDumps(stored'[ev'.tok]), ttl |-> SessionTTL]
          /\ \A u \in Tokens : Active(u) => SameRecord(u)]_vars

C6_Witness ==
    \E t \in Tokens, u \in Tokens :
        /\ ev.op = "store" /\ ev.tok = t
        /\ Active(t) /\ Remaining(t) = SessionTTL
        /\ u # t /\ Active(u) /\ Remaining(u) < SessionTTL
        /\ stored[u] # stored[t]

\* C7: delete_session leaves its token Absent, touches no other key, returns
\* true exactly when the token was in the store at the call, and on a token
\* that is not in the store (as after a first delete) returns false and
\* leaves the store unchanged.
C7_DeleteReturnsWhetherExisted ==
    [][\A t \in Tokens :
          (ev'.op = "delete" /\ ev'.tok = t) =>
              /\ Absent(t)'
              /\ DOMAIN redis' = DOMAIN redis \ {Key(t)}
              /\ \A u \in Tokens \ {t} : SameRecord(u)
              /\ ev'.val = Active(t)
              /\ Absent(t) => (ev'.val = FALSE /\ redis' = redis)]_vars

C7_Witness ==
    \E t \in Tokens :
        /\ ev.op = "delete" /\ ev.tok = t /\ ev.val = FALSE
        /\ phase[t] = "deleted"

\* C8: session_exists and get_ttl leave the whole store as it was, and the
\* remaining TTL of a record grows only in the step in which a get_session
\* on its token returns.
C8_PeeksLeaveStoreUnchanged ==
    [][/\ ev'.op \in {"exists", "ttl"} => redis' = redis
       /\ \A t \in Tokens :
             (Active(t) /\ Active(t)' /\ Remaining(t)' > Remaining(t))
                 => (GetReturned(t) /\ ev'.ok)]_vars

C8_Witness ==
    \E t \in Tokens :
        /\ ev.op = "exists" /\ ev.tok = t /\ ev.val = TRUE
        /\ Remaining(t) < SessionTTL

\* C9: get_ttl's answer for a token is -2 iff the token is not in the store
\* and lies in 0..SessionTTL otherwise; -1 is never the answer, and no record
\* in the store is without a TTL.
C9_TtlReplyRange ==
    /\ \A t \in Tokens :
          /\ (Remaining(t) = NoKey) <=> Absent(t)
          /\ Active(t) => (Remaining(t) \in 0..SessionTTL /\ Remaining(t) # NoExpiry)
    /\ ev.op = "ttl" =>
          /\ ev.val = Remaining(ev.tok)
          /\ ev.val \in {NoKey} \cup (0..SessionTTL)
          /\ (ev.val = NoKey) <=> Absent(ev.tok)

C9_Witness ==
    \E t \in Tokens :
        /\ ev.op = "ttl" /\ ev.tok = t
        /\ ev.val \in 1..(SessionTTL - 1)

\* C10: every session get_session returns is the one store_session was given
\* for that token: the same cookies and base_url, and the created_at written
\* at the store; so every get of a token returns the same record.
C10_StoreGetRoundTrip ==
    (ev.op = "get" /\ ev.ok) =>
        /\ DOMAIN ev.val = {"cookies", "base_url", "created_at"}
        /\ ev.val.cookies = stored[ev.tok].cookies
        /\ ev.val.base_url = stored[ev.tok].base_url
        /\ ev.val.created_at = stored[ev.tok].created_at
        /\ ev.val.created_at \in Timestamps

C10_Witness ==
    /\ ev.op = "get" /\ ev.ok
    /\ Cardinality(DOMAIN ev.val.cookies) = 2
    /\ idle[ev.tok] = 0 /\ Active(ev.tok)

\* C30: a request whose get_session call returns resolves to the session
\* stored under its token, has a BookingClient built from that session's
\* base_url and cookies, and leaves the token Active with the full TTL; a
\* request on a token that is not in the store (never stored, deleted or
\* expired) ends in a 401 with the challenge "WWW-Authenticate: Bearer" and
\* no session and no BookingClient.
C30_TokenResolution ==
    [][\A t \in Tokens :
          /\ (GetReturned(t) /\ ev'.ok) =>
                /\ auth'.called /\ auth'.raised = None
                /\ auth'.session # None
                /\ auth'.session[1]["cookies"] = stored[t].cookies
                /\ auth'.session[1]["base_url"] = stored[t].base_url
                /\ auth'.session[1]["created_at"] = stored[t].created_at
                /\ auth'.client = Some([base_url |-> stored[t].base_url,
                                        cookies |-> stored[t].cookies])
                /\ Active(t)' /\ Remaining(t)' = SessionTTL
          /\ (Absent(t) /\ GetCalled(t)) =>
                /\ auth'.called
                /\ auth'.raised # None
                /\ auth'.raised[1].status_code = 401
                /\ "WWW-Authenticate" \in DOMAIN auth'.raised[1].headers
                /\ auth'.raised[1].headers["WWW-Authenticate"] = "Bearer"
                /\ auth'.session = None /\ auth'.client = None]_vars

\* C32 (as claimed): a session's lifetime runs from its last successful read:
\* it expires only at the Tick that completes SessionTTL seconds since its
\* store or its last refresh, and never in the second that follows a
\* get_session call's read of it (a read made less than one TTL after the
\* store or the previous read starts a full window).
C32_ReadKeepsAlive ==
    [][\A t \in Tokens :
          (Active(t) /\ Absent(t)' /\ ev'.op = "tick") =>
              /\ idle[t] = SessionTTL - 1
              /\ ~(ev.op = "get_read" /\ ev.tok = t)]_vars

\* C40: a token that has left Active (issued, and no longer in the store)
\* is not in the store after any step: a get_session call whose EXPIRE lands
\* after the key is gone changes nothing in the store, and store_session
\* never returns a token issued before.
C40_NoResurrection ==
    [][\A t \in Tokens :
          (t \in issued /\ Absent(t)) =>
              /\ Absent(t)'
              /\ phase'[t] = phase[t]
              /\ GetReturned(t) => redis' = redis
              /\ ev'.op = "store" => ev'.tok # t]_vars

\* a get_session call has returned after its token was deleted or had
\* expired, and the token is not in the store; the other token was stored since
C40_Witness ==
    \E t \in Tokens, u \in Tokens :
        /\ ev.op = "get" /\ ev.ok /\ ev.tok = t
        /\ phase[t] \in {"deleted", "expired"} /\ Absent(t)
        /\ u # t /\ Active(u)

\* ------------------------------------------------- claims: BookingClient
\* The cookies a client holds or sends: its context's jar, or the cookies it
\* was built with while it holds no context.
Jar(c) == IF http[c] = None THEN cfg[c].initial_cookies ELSE http[c][1].cookies

\* A response arrived and raise_for_status() let it pass.
Answered(e) == e.resp.error = "" /\ IsSuccess(e.resp.status_code)

\* The step just taken ended a call of op that had sent its request.
Resumed(e, op) == e.op = op /\ e.reqs = 1 /\ e.kind # "send"

\* The step just taken was a cancellation: CancelledError left the call.
Cancelled(e) == e.kind = "raise" /\ e.val.type = "CancelledError"

\* The step just taken was the call of op itself, up to its request.
Called(e, op) == e.op = op /\ DOMAIN e.args # {} /\ (e.reqs = 0 \/ e.kind = "send")

\* C11: a non-dry-run book_time_slot returns a booking id only when the
\* response arrived, parse_booking_response reports success and
\* extract_booking_id finds an id in the final URL, and then returns that id,
\* which is never empty; a failed confirmation raises BookingError with the
\* parser's message; a confirmation whose URL carries no id raises
\* BookingError as well.
C11_BookingIdOnlyWhenConfirmed ==
    [][LET e == cev'
           parsed == ParseBookingResponse(e.resp.html)
           booking_id == ExtractBookingId(e.resp.url)
       IN  Resumed(e, "book_time_slot") =>
             /\ e.kind = "return" =>
                   /\ Answered(e) /\ parsed[1] /\ booking_id # None
                   /\ e.val = booking_id[1] /\ e.val # <<>>
             /\ Answered(e) /\ ~parsed[1] =>
                   e.kind = "raise" /\ e.val = Error("BookingError", parsed[2])
             /\ Answered(e) /\ parsed[1] /\ booking_id = None =>
                   e.kind = "raise" /\ e.val.type = "BookingError"]_vars

\* a booking confirmed and its id taken from the second edit= of the URL
C11_Witness ==
    /\ Resumed(cev, "book_time_slot") /\ cev.kind = "return"
    /\ cev.val = <<"BOOK456">>

\* C12 as stated: a dry-run book_time_slot issues no request and returns the
\* sentinel id whatever the slot holds.
C12_DryRunAlwaysReturnsSentinel ==
    [][LET e == cev'
       IN  Called(e, "book_time_slot") /\ e.args.dry_run =>
             e.reqs = 0 /\ e.kind = "return" /\ e.val = DryRunBookingId]_vars

\* C12 amended: a dry-run book_time_slot issues no request; it returns the
\* sentinel id for every slot with can_book true and num_slots in 1..4,
\* whatever its time and booking form, and fails validation for any other.
C12_DryRunReturnsSentinelWhenValid ==
    [][LET e == cev'
           valid == /\ e.args.time_slot.can_book
                    /\ e.args.num_slots \in 1..4
       IN  Called(e, "book_time_slot") /\ e.args.dry_run =>
             /\ e.reqs = 0 /\ pcC'[e.client] = "idle"
             /\ valid => e.kind = "return" /\ e.val = DryRunBookingId
             /\ ~valid => e.kind = "raise" /\ e.val.type = "BookingError"]_vars

\* a dry run on a bookable slot with an empty booking form returned the sentinel
C12_Witness ==
    /\ Called(cev, "book_time_slot") /\ cev.args.dry_run
    /\ cev.args.time_slot.booking_form = EmptyDict
    /\ cev.kind = "return" /\ cev.val = DryRunBookingId

\* C13: book_time_slot raises "not bookable" when can_book is false and
\* "between 1 and 4" when num_slots is outside 1..4, accepts 1, 2, 3 and 4,
\* and a call that fails so has issued no request and left the cookie jar
\* as it was.
C13_BookValidatesBeforeRequest ==
    [][LET e == cev'
           slot == e.args.time_slot
           n == e.args.num_slots
       IN  Called(e, "book_time_slot") =>
             /\ ~slot.can_book =>
                   /\ e.kind = "raise"
                   /\ e.val = Error("BookingError", "Time slot is not bookable")
             /\ slot.can_book /\ n \notin 1..4 =>
                   /\ e.kind = "raise"
                   /\ e.val = Error("BookingError", "num_slots must be between 1 and 4")
             /\ slot.can_book /\ n \in 1..4 => e.kind # "raise"
             /\ e.kind = "raise" =>
                   /\ e.reqs = 0
                   /\ \A c \in DOMAIN cfg :
                         e.client = c => pcC'[c] = "idle" /\ Jar(c)' = Jar(c)]_vars

\* five slots asked of a bookable slot by a client that holds site cookies
C13_Witness ==
    /\ Called(cev, "book_time_slot") /\ cev.kind = "raise"
    /\ cev.args.time_slot.can_book /\ cev.args.num_slots = 5
    /\ "session" \in DOMAIN Jar(cev.client)
    /\ Jar(cev.client).session = "xyz789"

\* C14: add_partner raises "between 2 and 4" when slot_num is outside 2..4,
\* before any request, and accepts 2, 3 and 4; with a valid slot_num and
\* dry_run it returns true and issues no request.
C14_PartnerValidatesBeforeRequest ==
    [][LET e == cev'
           n == e.args.slot_num
       IN  Called(e, "add_partner") =>
             /\ n \notin 2..4 =>
                   /\ e.kind = "raise" /\ e.reqs = 0 /\ pcC'[e.client] = "idle"
                   /\ e.val = Error("BookingError", "slot_num must be between 2 and 4")
             /\ n \in 2..4 => e.kind # "raise"
             /\ n \in 2..4 /\ e.args.dry_run =>
                   /\ e.kind = "return" /\ e.val = TRUE
                   /\ e.reqs = 0 /\ pcC'[e.client] = "idle"]_vars

\* slot 1 refused
C14_Witness ==
    /\ Called(cev, "add_partner") /\ cev.kind = "raise"
    /\ cev.args.slot_num = 1 /\ cev.reqs = 0

\* C15: a non-dry-run add_partner with a valid slot_num sends one GET whose
\* query is edit, addpartner and partnerslot; whenever a response arrives
\* the call returns, and what it returns is whether the status is 200,
\* whatever the body.
C15_PartnerResultIsStatus200 ==
    [][LET e == cev'
       IN  /\ Called(e, "add_partner") /\ e.args.slot_num \in 2..4
              /\ ~e.args.dry_run =>
                 /\ e.kind = "send" /\ e.reqs = 1
                 /\ e.req.method = "GET"
                 /\ e.req.params = [k \in {"edit", "addpartner", "partnerslot"} |->
                                     CASE k = "edit" -> e.args.booking_id
                                       [] k = "addpartner" -> e.args.partner_id
                                       [] k = "partnerslot" -> Str(e.args.slot_num)]
           /\ Resumed(e, "add_partner") /\ ~Cancelled(e) =>
                 /\ pcC'[e.client] = "idle"
                 /\ e.resp.error = "" => e.kind = "return"
                 /\ e.kind = "return" =>
                       e.resp.error = "" /\ e.val = (e.resp.status_code = 200)]_vars

\* false returned for a 500 whose body is the confirmation page
C15_Witness ==
    /\ Resumed(cev, "add_partner") /\ cev.kind = "return"
    /\ cev.val = FALSE /\ cev.resp.status_code = 500
    /\ cev.resp.html = ConfirmedPage

Operations == {"login", "get_availability", "book_time_slot", "add_partner"}

TransportErrors == {"ConnectError", "ReadTimeout", "HTTPStatusError"}

\* the request of the call just ended failed: no response, or a status that is no success
Failed(e) == e.resp.error # "" \/ ~IsSuccess(e.resp.status_code)

C18_InstancesIndependent ==
    [][\A c \in DOMAIN cfg :
          cev'.client # c =>
             /\ cfg'[c] = cfg[c]
             /\ http'[c] = http[c]
             /\ Jar(c)' = Jar(c)
             /\ scope'[c] = scope[c] /\ pcC'[c] = pcC[c]]_vars

\* c2 closed its context while c1, holding the site's cookie, awaited a response
C18_Witness ==
    /\ cev.client = "c2" /\ cev.op = "close" /\ opens["c2"] >= 1
    /\ pcC["c1"] # "idle"
    /\ http["c1"] # None /\ Jar("c1").session = "xyz789"

\* C19: the user agent of an instance is one of USER_AGENTS, never changes,
\* and is the User-Agent header of every request the instance sends,
\* whichever of its HTTP contexts sends it.
C19_OneUserAgentForLife ==
    [][\A c \in DOMAIN cfg :
          LET e == cev'
          IN  /\ cfg[c].user_agent \in USER_AGENTS
              /\ cfg'[c].user_agent = cfg[c].user_agent
              /\ e.client = c /\ e.kind = "send" =>
                    /\ "User-Agent" \in DOMAIN e.req.headers
                    /\ e.req.headers["User-Agent"] = cfg[c].user_agent]_vars

\* a request sent from the second context of an instance
C19_Witness ==
    /\ cev.kind = "send" /\ opens[cev.client] >= 2
    /\ cev.req.headers["User-Agent"] = cfg[cev.client].user_agent

\* C33: a dry run validates as a real run does: a dry-run book_time_slot
\* raises "not bookable" when can_book is false (also when num_slots is out
\* of range), "between 1 and 4" when can_book is true and num_slots is
\* outside 1..4; a dry-run add_partner raises "between 2 and 4" when slot_num
\* is outside 2..4; the placeholder (the sentinel id, TRUE) is returned only
\* when validation passes; and no dry run issues a request.
C33_DryRunValidatesFirst ==
    [][LET e == cev'
       IN  /\ Called(e, "book_time_slot") /\ e.args.dry_run =>
                /\ e.reqs = 0 /\ e.kind # "send"
                /\ ~e.args.time_slot.can_book =>
                      e.kind = "raise" /\
                      e.val = Error("BookingError", "Time slot is not bookable")
                /\ e.args.time_slot.can_book /\ e.args.num_slots \notin 1..4 =>
                      e.kind = "raise" /\
                      e.val = Error("BookingError", "num_slots must be between 1 and 4")
                /\ e.kind = "return" =>
                      /\ e.val = DryRunBookingId
                      /\ e.args.time_slot.can_book /\ e.args.num_slots \in 1..4
           /\ Called(e, "add_partner") /\ e.args.dry_run =>
                /\ e.reqs = 0 /\ e.kind # "send"
                /\ e.args.slot_num \notin 2..4 =>
                      e.kind = "raise" /\
                      e.val = Error("BookingError", "slot_num must be between 2 and 4")
                /\ e.kind = "return" =>
                      e.val = TRUE /\ e.args.slot_num \in 2..4]_vars

\* a dry run on a slot that cannot be booked, for five players: "not bookable"
C33_Witness ==
    /\ Called(cev, "book_time_slot") /\ cev.args.dry_run
    /\ ~cev.args.time_slot.can_book /\ cev.args.num_slots = 5
    /\ cev.kind = "raise" /\ cev.val.message = "Time slot is not bookable"

\* C34 as stated: the query of a non-dry-run book_time_slot request holds
\* every field of the slot's booking form with its value unchanged, and
\* numslots equal to the caller's num_slots; the slot's booking form is left
\* as it was.
C34_QueryIsFormPlusNumslots ==
    [][LET e == cev'
           form == e.args.time_slot.booking_form
       IN  Called(e, "book_time_slot") /\ e.kind = "send" =>
             /\ DOMAIN e.req.params = DOMAIN form \cup {"numslots"}
             /\ \A n \in DOMAIN form : e.req.params[n] = form[n]
             /\ e.req.params["numslots"] = Str(e.args.num_slots)
             /\ e.args.left = form]_vars

\* C34 amended: the query holds every field of the slot's booking form other
\* than numslots with its value unchanged, and numslots equal to the
\* caller's num_slots, which replaces a form field of that name; it holds
\* nothing else, and the slot's booking form is left as it was.
C34_QueryIsFormWithCallersNumslots ==
    [][LET e == cev'
           form == e.args.time_slot.booking_form
       IN  Called(e, "book_time_slot") /\ e.kind = "send" =>
             /\ DOMAIN e.req.params = DOMAIN form \cup {"numslots"}
             /\ \A n \in DOMAIN form \ {"numslots"} : e.req.params[n] = form[n]
             /\ e.req.params["numslots"] = Str(e.args.num_slots)
             /\ e.args.left = form]_vars

\* a request sent for two players on a slot whose form says numslots=9
C34_Witness ==
    /\ Called(cev, "book_time_slot") /\ cev.kind = "send"
    /\ cev.args.num_slots = 2
    /\ "numslots" \in DOMAIN cev.args.time_slot.booking_form
    /\ cev.req.params["numslots"] = "2" /\ cev.req.params["time"] = "12:00"

\* C36 (as claimed): a write by the caller into the dict it passed to the
\* constructor, or into a dict get_cookies returned, leaves the cookies the
\* client holds or sends as they were.
C36_JarNotAliased ==
    [][\A c \in DOMAIN cfg :
          cev'.client = c /\ cev'.op = "caller_sets_cookie" => Jar(c)' = Jar(c)]_vars

\* C37 (as claimed): get_cookies returns the jar of the HTTP context while
\* one is held and the empty map while none is (before first use, after
\* close), and every HTTP context a client acquires, the first and any
\* after a close, starts from the cookies the client was constructed with.
C37_CookiesLiveWithContext ==
    [][\A c \in DOMAIN cfg :
          LET e == cev'
          IN  /\ e.client = c /\ e.op = "get_cookies" =>
                    e.val = IF http[c] = None THEN EmptyDict ELSE http[c][1].cookies
              /\ http[c] = None /\ http'[c] # None =>
                    http'[c][1].cookies = cfg[c].given]_vars

ValidationMessages ==
    { "Time slot is not bookable", "num_slots must be between 1 and 4",
      "slot_num must be between 2 and 4" }

\* C38 (as claimed): the request a client sends as its first use carries
\* every cookie the client was constructed with, and get_availability,
\* book_time_slot and add_partner are refused before their request only by
\* the validation of their arguments, whether or not login was called.
C38_RestoredWithoutLogin ==
    [][\A c \in DOMAIN cfg :
          LET e == cev'
          IN  /\ e.client = c /\ e.kind = "send" /\ opens[c] = 0 =>
                    \A n \in DOMAIN cfg[c].given :
                        /\ n \in DOMAIN e.req.cookies
                        /\ e.req.cookies[n] = cfg[c].given[n]
              /\ e.client = c /\ e.kind = "raise" /\ e.reqs = 0 =>
                    /\ e.op \in {"book_time_slot", "add_partner"}
                    /\ e.val.type = "BookingError"
                    /\ e.val.message \in ValidationMessages]_vars

\* C39: a call of login, get_availability, book_time_slot or add_partner
\* sends at most one request: it sends it in the step that makes the call,
\* from a client that awaits nothing, or not at all when validation fails
\* or the run is dry; while the client awaits the response no step of it
\* sends; and the step that resumes the call ends it.
C39_OneRequestPerCall ==
    [][\A c \in DOMAIN cfg :
          LET e == cev'
          IN  e.client = c /\ e.op \in Operations =>
                /\ e.reqs \in {0, 1}
                /\ e.kind = "send" =>
                      /\ pcC[c] = "idle" /\ pcC'[c] = e.op /\ e.reqs = 1
                      /\ e.req.method \in {"GET", "POST"}
                /\ pcC[c] # "idle" =>
                      /\ e.op = pcC[c] /\ e.kind # "send" /\ e.req = NoRequest
                      /\ pcC'[c] = "idle"
                /\ e.kind # "send" => pcC'[c] = "idle"
                /\ Called(e, e.op) /\ e.kind = "raise" => e.reqs = 0
                /\ Called(e, e.op) /\ e.op \in {"book_time_slot", "add_partner"} =>
                      (e.args.dry_run => e.reqs = 0 /\ e.req = NoRequest)]_vars

\* a login whose connection failed has raised, and the client awaits nothing
C39_Witness ==
    /\ Resumed(cev, "login") /\ cev.kind = "raise"
    /\ cev.resp.error = "ConnectError"
    /\ pcC[cev.client] = "idle" /\ cev.reqs = 1

\* the page has a title that, leading whitespace aside, begins "Welcome"
WelcomeTitle(html) ==
    /\ html.title # None
    /\ LET title == html.title[1]
       IN  \E k \in 0..Len(title) :
              /\ \A j \in 1..k : title[j] \in Whitespace
              /\ Len(title) >= k + Len(Welcome)
              /\ \A j \in 1..Len(Welcome) : title[k + j] = Welcome[j]

\* C27: a login whose response arrived with a success status returns, and
\* returns TRUE iff the page has a title whose trimmed text starts with
\* "Welcome"; no title, an empty title and any other beginning, lowercase
\* "welcome" included, return FALSE and raise nothing.
C27_LoginIsWelcomeTitle ==
    [][LET e == cev'
       IN  Resumed(e, "login") /\ Answered(e) =>
              /\ e.kind = "return"
              /\ e.val = WelcomeTitle(e.resp.html)]_vars

\* a login answered with a lowercase "welcome" returned FALSE
C27_Witness ==
    /\ Resumed(cev, "login") /\ Answered(cev)
    /\ cev.resp.html.title # None /\ cev.resp.html.title[1] # <<>>
    /\ Head(cev.resp.html.title[1]) = "w"
    /\ cev.kind = "return" /\ cev.val = FALSE

\* ---------------------------------------------- claims: EncryptionService
\* C20: decrypt_credentials, under the secret that encrypted, returns
\* exactly the username and pin that encrypt_credentials was given.
C20_RoundTrip ==
    cx.op = "decrypt" /\ cx.secret = cx.sealed_by =>
        cx.out.kind = "return" /\ cx.out.val = <<cx.username, cx.pin>>

\* the twelve bytes in front of an envelope
NonceOf(envelope) == SubSeq(B64Decode(envelope).raw, 1, NONCE_SIZE)

\* C21: of any two encrypt_credentials calls made with one key, the later
\* one seals under a nonce the earlier did not use and returns a different
\* envelope, and when the two were given the same username and pin both
\* envelopes decrypt, under that key, to one and the same pair.
C21_FreshNoncePerCall ==
    \A i \in 1..Len(sealed), j \in 1..Len(sealed) :
        i < j /\ sealed[i].secret = sealed[j].secret =>
            LET key == DeriveKey(sealed[i].secret)
                first == Decrypt(key, sealed[i].out)
                second == Decrypt(key, sealed[j].out)
            IN  /\ NonceOf(sealed[i].out) # NonceOf(sealed[j].out)
                /\ sealed[i].out # sealed[j].out
                /\ (sealed[i].username = sealed[j].username
                      /\ sealed[i].pin = sealed[j].pin) =>
                        /\ first.kind = "return"
                        /\ second.kind = "return"
                        /\ first.val = second.val

\* the same username and pin encrypted twice
C21_Witness ==
    /\ Len(sealed) = 2
    /\ sealed[1].username = sealed[2].username
    /\ sealed[1].pin = sealed[2].pin
    /\ sealed[1].pin # <<>>
    /\ sealed[1].out # sealed[2].out

\* ------------------------------------- claims: decrypt_credentials, alone
Decrypted == fx.fn = "decrypt_credentials" /\ fx.done

\* every character of the text is base64 data
ValidBase64(text) == \A i \in 1..Len(text) : text[i][1] = "b64"

InvalidEncoding == Raise("EncryptionError", "Invalid base64 encoding")
Truncated == Raise("EncryptionError", "Invalid encrypted data: too short")
AuthenticationFailed == Raise("EncryptionError", "Decryption failed")
MalformedPayload ==
    Raise("EncryptionError", "Invalid credential format: missing separator")

\* the call ended in that error
Fails(out, error) == out.kind = "raise" /\ out = error

\* what the AEAD opens the decoded bytes of a valid text to, None when it
\* does not open
Opened(shared_secret, text) ==
    LET raw == [i \in 1..Len(text) |-> text[i][2]]
    IN  AesGcmDecrypt(DeriveKey(shared_secret), SubSeq(raw, 1, NONCE_SIZE),
                      SubSeq(raw, NONCE_SIZE + 1, Len(raw)))

\* C22: decrypt_credentials fails with InvalidEncoding on every text that
\* is not valid base64; else with Truncated when fewer than 13 bytes were
\* decoded; else with AuthenticationFailed when the AEAD does not open;
\* else with MalformedPayload when the plaintext holds no ':'; and it
\* returns a pair only when none of the four applies.
C22_FailuresClassifiedInOrder ==
    Decrypted =>
        LET text == fx.arg.encrypted_data
            plain == Opened(fx.arg.secret, text)
        IN  IF ~ValidBase64(text) THEN Fails(fx.out, InvalidEncoding)
            ELSE IF Len(text) < NONCE_SIZE + 1 THEN Fails(fx.out, Truncated)
            ELSE IF plain = None THEN Fails(fx.out, AuthenticationFailed)
            ELSE IF \A k \in 1..Len(plain[1]) : plain[1][k] # 58
            THEN Fails(fx.out, MalformedPayload)
            ELSE fx.out.kind = "return"

\* C23: an envelope decrypted under another secret than the one it was
\* sealed under, or after its nonce, its ciphertext or its tag was altered,
\* never yields a pair: decrypt_credentials fails with AuthenticationFailed.
C23_WrongKeyOrAlteredFails ==
    Decrypted =>
        LET wrong_key == /\ fx.made.variant = "genuine"
                         /\ fx.arg.secret # fx.made.sealed_by
            altered == fx.made.variant \in {"nonce", "ciphertext", "tag"}
        IN  wrong_key \/ altered => Fails(fx.out, AuthenticationFailed)

\* an altered envelope, refused under the secret that sealed it
C23_Witness ==
    /\ Decrypted
    /\ fx.made.variant = "tag" /\ fx.arg.secret = fx.made.sealed_by
    /\ Fails(fx.out, AuthenticationFailed)

\* C24: the username decrypt_credentials returns is the plaintext before
\* its first ':' and the pin is all of the plaintext after that ':', further
\* ':' included.
C24_SplitsOnFirstSeparator ==
    Decrypted /\ fx.out.kind = "return" =>
        LET decoded == Decode(Opened(fx.arg.secret, SelectSeq(fx.arg.encrypted_data, IsData))[1])[1]
            username == fx.out.val[1]
            pin == fx.out.val[2]
        IN  /\ \A k \in 1..Len(username) : username[k] # ":"
            /\ username \o <<":">> \o pin = decoded

\* a pin of two ':' returned whole
C24_Witness ==
    /\ Decrypted /\ fx.out.kind = "return"
    /\ fx.out.val = << <<"é">>, <<":", ":">> >>

\* -------------------------------------------- claims: the parsers, alone
Parsed(fn) == fx.fn = fn /\ fx.done

\* a tr.canreserve or tr.cantreserve row with a time header, a booking
\* action, no occupant and no block
Included(row) ==
    /\ row.cls \in {"canreserve", "cantreserve"}
    /\ row.th # None
    /\ row.inlineBooking /\ row.player_names = 0 /\ ~row.comp_item

\* C25: the slots parse_availability returns are, in order, the candidate
\* rows that have a time header, a booking action, no occupant and no
\* block, and every one of them has can_book = TRUE.
C25_InclusionLaw ==
    Parsed("parse_availability") =>
        LET kept == SelectSeq(fx.arg.rows, Included)
            slots == fx.out.val
        IN  /\ Len(slots) = Len(kept)
            /\ \A i \in 1..Len(slots) :
                  /\ slots[i].time = Strip(kept[i].th[1])
                  /\ slots[i].can_book

\* a bookable row without a time header left out, the bookable row after
\* it kept
C25_Witness ==
    /\ Parsed("parse_availability")
    /\ Len(fx.arg.rows) = 2 /\ Len(fx.out.val) = 1
    /\ fx.arg.rows[1].th = None /\ fx.arg.rows[1].inlineBooking
    /\ fx.out.val[1].time = <<"10:00">>

\* C26: a TimeSlot parse_availability returns has can_book = TRUE iff its
\* booking form is not empty and its row satisfied the availability
\* predicate.
C26_BookableIffFormAndPredicate ==
    Parsed("parse_availability") =>
        LET kept == SelectSeq(fx.arg.rows, Included)
            slots == fx.out.val
        IN  \A i \in 1..Len(slots) :
                slots[i].can_book <=>
                    (DOMAIN slots[i].booking_form # {} /\ Included(kept[i]))

\* the name/value pairs a dict holds
Pairs(form) == { <<n, form[n]>> : n \in DOMAIN form }

C28_SuccessIffBannerAtLocation ==
    Parsed("parse_booking_response") =>
        LET elements == fx.arg.strong
            banner == \E i \in 1..Len(elements) :
                         /\ elements[i].path = SuccessSelector
                         /\ Strip(elements[i].text) = expected_message
        IN  fx.out.val = IF banner THEN <<TRUE, "">>
                         ELSE <<FALSE, BookingFailedMessage>>

\* "?edit=" or "&edit=" stands at position i of the URL
Occurs(url, i) ==
    /\ i + 2 <= Len(url)
    /\ url[i] \in {"?", "&"} /\ url[i + 1] = "edit" /\ url[i + 2] = "="

\* the text after the occurrence at i, up to the next "&" or the end
TextAfter(url, i) ==
    LET stops == {k \in (i + 3)..(Len(url) + 1) : k = Len(url) + 1 \/ url[k] = "&"}
        stop == CHOOSE k \in stops : \A other \in stops : k <= other
    IN  SubSeq(url, i + 3, stop - 1)

\* C29 as stated: extract_booking_id returns the text after the first
\* "?edit=" or "&edit=" of the URL, up to the next "&" or the end, and None
\* iff the URL holds no "?edit=" and no "&edit=".
C29_FirstOccurrence ==
    Parsed("extract_booking_id") =>
        LET url == fx.arg
            at == {i \in 1..Len(url) : Occurs(url, i)}
        IN  fx.out.val =
                IF at = {} THEN None
                ELSE Some(TextAfter(url, CHOOSE i \in at : \A other \in at : i <= other))

\* C29 amended: extract_booking_id returns the text after the first
\* "?edit=" or "&edit=" that is followed by a character other than "&", up
\* to the next "&" or the end, which is never empty, and None iff the URL
\* holds no such occurrence.
C29_FirstOccurrenceWithValue ==
    Parsed("extract_booking_id") =>
        LET url == fx.arg
            at == {i \in 1..Len(url) :
                      /\ Occurs(url, i)
                      /\ i + 3 <= Len(url) /\ url[i + 3] # "&"}
        IN  /\ fx.out.val =
                  IF at = {} THEN None
                  ELSE Some(TextAfter(url, CHOOSE i \in at : \A other \in at : i <= other))
            /\ fx.out.val # Some(<<>>)

\* the id taken from the second edit=, the first one having no value
C29_Witness ==
    /\ Parsed("extract_booking_id")
    /\ Len(fx.arg) = 11
    /\ Occurs(fx.arg, 5) /\ fx.arg[8] = "&" /\ Occurs(fx.arg, 8)
    /\ fx.out.val = Some(<<"BOOK123">>)

\* ------------------------------------- claims: get_session_manager, alone
\* C31: the SessionManager that get_session_manager returns has the
\* session_ttl of the settings as its ttl, 1800 seconds when the setting is
\* left at its default, and store_session of that manager writes its record
\* with that TTL.
C31_SettingsTtlApplied ==
    Parsed("get_session_manager") =>
        /\ fx.out.val.ttl = fx.arg.session_ttl
        /\ fx.out.val.written = fx.arg.session_ttl

====
